---- MODULE Spec2Model ----
(***************************************************************************)
(* helm-templexer: the plan compiler (RenderCmd::plan), the process runner *)
(* (RenderCmd::run_helm) and the run over the input documents              *)
(* (RenderCmd::run with RenderCmd::exec_plan) of src/src/render_cmd.rs.    *)
(*                                                                         *)
(* Strings are TLA+ strings.  Option<T> is a sequence of length 0 or 1.    *)
(* A PathBuf is a record [utf8, s]: s is the path text; utf8 = FALSE marks *)
(* a path holding bytes that are not valid UTF-8 (s is then its lossy      *)
(* rendering), which is what Path::to_str refuses to convert.              *)
(***************************************************************************)
EXTENDS Integers, Sequences, FiniteSets, TLC

VARIABLES
    cfg,        \* the loaded Config handed to plan()
    opts,       \* RenderCmd.opts (RenderCmdOpts)
    plan,       \* anyhow::Result<Plan> returned by plan()
    pc,         \* position of the modelled call
    helm_cmd,   \* run_helm: the command line
    helm_proc,  \* run_helm: what Exec::shell(cmd).capture() yields
    sink,       \* run_helm: the output writer
    helm_ret,   \* run_helm: anyhow::Result<()> returned
    input_files,\* run: the documents of opts.input_files, as loaded
    doc,        \* run: index of the document being processed
    fs,         \* the filesystem
    fs_doc,     \* the filesystem when the current document was begun
    fault,      \* what the environment refuses or fails during the run
    pre_idx,    \* exec_plan: index of the next pre-command
    todo,       \* exec_plan: names of commands not yet iterated
    cur,        \* exec_plan: name of the deployment being executed
    trace,      \* what run has done so far: commands and filesystem calls
    run_ret,    \* run: anyhow::Result<()> returned
    validation_opts, \* validate: the ValidationOpts handed to it
    validate_ret     \* validate: anyhow::Result<()> returned

plan_vars == <<cfg, opts, plan>>
helm_vars == <<helm_cmd, helm_proc, sink, helm_ret>>
run_vars == <<input_files, doc, fs, fs_doc, fault, pre_idx, todo, cur, trace,
              run_ret>>
validate_vars == <<validation_opts, validate_ret>>

vars == <<cfg, opts, plan, pc, helm_cmd, helm_proc, sink, helm_ret,
          input_files, doc, fs, fs_doc, fault, pre_idx, todo, cur, trace,
          run_ret, validation_opts, validate_ret>>

(***************************************************************************)
(* Bounds of the model.                                                    *)
(***************************************************************************)
MaxDeployments == 2
MaxList == 2
\* the capacity of the BufWriter over an output file, which is 8 KiB in the
\* standard library, scaled to the lengths of the modelled outputs
BufCapacity == 16

(***************************************************************************)
(* Option, Result, PathBuf.                                                *)
(***************************************************************************)
None == <<>>
Some(x) == <<x>>
is_some(v) == Len(v) = 1
unwrap(v) == v[1]

Ok(v) == [ok |-> TRUE, val |-> v]
Err(m, v) == [ok |-> FALSE, msg |-> m, value |-> v]

PathBuf(s) == [utf8 |-> TRUE, s |-> s]
NonUtf8Path(s) == [utf8 |-> FALSE, s |-> s]

to_str_Lossy(p) == Some(p.s)

\* Path::to_str: Some(&str) iff the path is valid UTF-8
to_str(p) == IF p.utf8 THEN Some(p.s) ELSE None

StartsWith(s, pre) == Len(pre) <= Len(s) /\ SubSeq(s, 1, Len(pre)) = pre
Contains(s, n) ==
    \E i \in 1..(Len(s) - Len(n) + 1) : SubSeq(s, i, i + Len(n) - 1) = n
LastIndexOf(s, ch) ==
    LET hits == {i \in 1..Len(s) : SubSeq(s, i, i) = ch}
    IN IF hits = {} THEN 0 ELSE CHOOSE i \in hits : \A j \in hits : j <= i

\* Path::join(&str) (PathBuf::push on unix): an absolute argument replaces
\* the path; otherwise a separator is added unless the path is empty or
\* already ends with one.
PathJoin(p, seg) ==
    IF StartsWith(seg, "/") THEN PathBuf(seg)
    ELSE IF Len(p.s) = 0 \/ SubSeq(p.s, Len(p.s), Len(p.s)) = "/"
         THEN [p EXCEPT !.s = p.s \o seg]
         ELSE [p EXCEPT !.s = p.s \o "/" \o seg]

\* PathBuf::set_extension: cut after the stem of the file name, add ".ext"
PathSetExtension(p, ext) ==
    LET fname == SubSeq(p.s, LastIndexOf(p.s, "/") + 1, Len(p.s))
        dot == LastIndexOf(fname, ".")
        stem == IF dot <= 1 THEN fname ELSE SubSeq(fname, 1, dot - 1)
    IN IF fname = "" \/ fname = ".."
       THEN p
       ELSE [p EXCEPT !.s = SubSeq(p.s, 1, Len(p.s) - Len(fname) + Len(stem))
                                \o "." \o ext]

(***************************************************************************)
(* Name filter: Regex::new(regex)?.is_match(name).                         *)
(* The modelled fragment of the regex syntax: literal text with an         *)
(* optional leading ^ and trailing $; a pattern with unbalanced            *)
(* parentheses does not compile.                                           *)
(***************************************************************************)
CountOf(s, ch) == Cardinality({i \in 1..Len(s) : SubSeq(s, i, i) = ch})

RegexNew_AlwaysCompiles(regex) ==
    Ok([start |-> FALSE, end |-> FALSE, lit |-> regex])

RegexNew(regex) ==
    IF CountOf(regex, "(") # CountOf(regex, ")")
    THEN Err("regex parse error", regex)
    ELSE LET a == StartsWith(regex, "^")
             r1 == IF a THEN SubSeq(regex, 2, Len(regex)) ELSE regex
             z == Len(r1) > 0 /\ SubSeq(r1, Len(r1), Len(r1)) = "$"
             lit == IF z THEN SubSeq(r1, 1, Len(r1) - 1) ELSE r1
         IN Ok([start |-> a, end |-> z, lit |-> lit])

RegexIsMatch(re, name) ==
    \E i \in 1..(Len(name) - Len(re.lit) + 1) :
        /\ SubSeq(name, i, i + Len(re.lit) - 1) = re.lit
        /\ re.start => i = 1
        /\ re.end => i + Len(re.lit) - 1 = Len(name)

is_name_filtered_LiteralPrefix(regex, name) ==
    LET re == RegexNew(regex)
    IN IF ~re.ok THEN re ELSE Ok(StartsWith(name, re.val.lit))

is_name_filtered(regex, name) ==
    LET re == RegexNew(regex)
    IN IF ~re.ok THEN re ELSE Ok(RegexIsMatch(re.val, name))

(***************************************************************************)
(* RenderCmd::plan                                                         *)
(***************************************************************************)
PRE_CMD_DEPENDENCY_UPDATE == "helm-dependency-update"

\* IndexMap::insert: replace the value of an existing key in place, else append
IndexMapInsert(m, k, v) ==
    IF \E i \in 1..Len(m) : m[i].key = k
    THEN [i \in 1..Len(m) |-> IF m[i].key = k THEN [key |-> k, cmd |-> v] ELSE m[i]]
    ELSE Append(m, [key |-> k, cmd |-> v])

HashMapInsert_KeepFirst(m, k, v) ==
    [n \in (DOMAIN m) \cup {k} |-> IF n \in DOMAIN m THEN m[n] ELSE v]

\* HashMap::insert: a later insert under the same key replaces the entry
HashMapInsert(m, k, v) ==
    [n \in (DOMAIN m) \cup {k} |-> IF n = k THEN v ELSE m[n]]

EmptyPlan == [skip |-> FALSE, pre_commands |-> <<>>, commands |-> <<>>]

doc_disabled_Never(c) == FALSE

\* if let Some(enabled) = cfg.enabled { if !enabled { skip } }
doc_disabled(c) == c.enabled = Some(FALSE)

\* get_values_as_strings: every path converted, the first failure returned
RECURSIVE paths_as_strings(_)
paths_as_strings(items) ==
    IF items = <<>> THEN Ok(<<>>)
    ELSE LET s == to_str(Head(items))
         IN IF ~is_some(s)
            THEN Err("failed to convert to string", Head(items).s)
            ELSE LET rest == paths_as_strings(Tail(items))
                 IN IF ~rest.ok THEN rest ELSE Ok(<<unwrap(s)>> \o rest.val)

get_values_as_strings(input) ==
    IF is_some(input) THEN paths_as_strings(unwrap(input)) ELSE Ok(<<>>)

\* .iter().map(|f| format!("--values={}", f)).collect()
values_flags(strs) == [i \in 1..Len(strs) |-> "--values=" \o strs[i]]

unwrap_or_empty(v) == IF is_some(v) THEN unwrap(v) ELSE <<>>

pre_commands_WrongVerb(o, chart) ==
    IF o.update_dependencies
    THEN IndexMapInsert(<<>>, PRE_CMD_DEPENDENCY_UPDATE,
                        <<"helm", "dependency", "build", chart>>)
    ELSE <<>>

\* if self.opts.update_dependencies { plan.pre_commands.insert(...) }
pre_commands(o, chart) ==
    IF o.update_dependencies
    THEN IndexMapInsert(<<>>, PRE_CMD_DEPENDENCY_UPDATE,
                        <<"helm", "dependencies", "update", chart>>)
    ELSE <<>>

base_cmd_CliBeforeDocOptions(c, o, chart, values) ==
    <<"helm", "template", c.release_name, chart>>
    \o (IF is_some(c.namespace)
        THEN <<"--namespace=" \o unwrap(c.namespace)>> ELSE <<>>)
    \o values
    \o unwrap_or_empty(o.additional_options)
    \o unwrap_or_empty(c.additional_options)

base_cmd_OptionsBeforeValues(c, o, chart, values) ==
    <<"helm", "template", c.release_name, chart>>
    \o (IF is_some(c.namespace)
        THEN <<"--namespace=" \o unwrap(c.namespace)>> ELSE <<>>)
    \o unwrap_or_empty(c.additional_options)
    \o values
    \o unwrap_or_empty(o.additional_options)

\* the base command shared by every deployment
base_cmd(c, o, chart, values) ==
    <<"helm", "template", c.release_name, chart>>
    \o (IF is_some(c.namespace)
        THEN <<"--namespace=" \o unwrap(c.namespace)>> ELSE <<>>)
    \o values
    \o unwrap_or_empty(c.additional_options)
    \o unwrap_or_empty(o.additional_options)

deployment_disabled_Never(d) == FALSE

\* if let Some(enabled) = d.enabled { if !enabled { continue } }
deployment_disabled(d) == d.enabled = Some(FALSE)

release_name_DocumentOnly(c, d) == c.release_name

\* the deployment's release name if it sets one, else the document's
release_name(c, d) ==
    IF is_some(d.release_name) THEN unwrap(d.release_name) ELSE c.release_name

fully_qualified_output_NameOnly(c, d) ==
    PathSetExtension(PathJoin(PathJoin(c.output_path, d.name), "manifest"),
                     "yaml")

\* cfg.output_path.join(&d.name).join(release_name).join("manifest"),
\* then set_extension("yaml")
fully_qualified_output(c, d) ==
    PathSetExtension(
        PathJoin(PathJoin(PathJoin(c.output_path, d.name), release_name(c, d)),
                 "manifest"),
        "yaml")

pipe_command_Reversed(o) ==
    IF is_some(o.pipe)
    THEN [i \in 1..Len(unwrap(o.pipe)) |->
             "| " \o unwrap(o.pipe)[Len(unwrap(o.pipe)) + 1 - i]]
    ELSE <<>>

\* opts.iter().map(|p| format!("| {}", p)).collect()
pipe_command(o) ==
    IF is_some(o.pipe)
    THEN [i \in 1..Len(unwrap(o.pipe)) |-> "| " \o unwrap(o.pipe)[i]]
    ELSE <<>>

deployment_cmd_CliOptionsLast(c, o, base, d, values) ==
    LET cli == unwrap_or_empty(o.additional_options)
        cmd == SubSeq(base, 1, Len(base) - Len(cli))
               \o values \o unwrap_or_empty(d.additional_options) \o cli
    IN [cmd EXCEPT ![3] = release_name(c, d)] \o pipe_command(o)

\* the command of one included deployment: base, deployment values and
\* options, cmd[2] overwritten with the release name, then the pipe tokens
deployment_cmd(c, o, base, d, values) ==
    LET cmd == base \o values \o unwrap_or_empty(d.additional_options)
    IN [cmd EXCEPT ![3] = release_name(c, d)] \o pipe_command(o)

RECURSIVE plan_deployments_PartialOnError(_, _, _, _, _)
plan_deployments_PartialOnError(c, o, base, ds, p) ==
    IF ds = <<>> THEN Ok(p)
    ELSE LET d == Head(ds)
             f == IF is_some(o.filter)
                  THEN is_name_filtered(unwrap(o.filter), d.name)
                  ELSE Ok(TRUE)
         IN IF ~f.ok THEN Ok(p)
            ELSE IF is_some(o.filter) /\ ~f.val
                 THEN plan_deployments_PartialOnError(c, o, base, Tail(ds), p)
            ELSE IF deployment_disabled(d)
                 THEN plan_deployments_PartialOnError(c, o, base, Tail(ds), p)
            ELSE LET vs == get_values_as_strings(d.values)
                 IN IF ~vs.ok THEN Ok(p)
                    ELSE plan_deployments_PartialOnError(c, o, base, Tail(ds),
                           [p EXCEPT !.commands =
                              HashMapInsert(@, d.name,
                                 [path |-> fully_qualified_output(c, d),
                                  cmd |-> deployment_cmd(c, o, base, d,
                                              values_flags(vs.val))])])

\* the for-loop over cfg.deployments
RECURSIVE plan_deployments(_, _, _, _, _)
plan_deployments(c, o, base, ds, p) ==
    IF ds = <<>> THEN Ok(p)
    ELSE LET d == Head(ds)
             f == IF is_some(o.filter)
                  THEN is_name_filtered(unwrap(o.filter), d.name)
                  ELSE Ok(TRUE)
         IN IF ~f.ok THEN f
            ELSE IF is_some(o.filter) /\ ~f.val
                 THEN plan_deployments(c, o, base, Tail(ds), p)
            ELSE IF deployment_disabled(d)
                 THEN plan_deployments(c, o, base, Tail(ds), p)
            ELSE LET vs == get_values_as_strings(d.values)
                 IN IF ~vs.ok THEN vs
                    ELSE plan_deployments(c, o, base, Tail(ds),
                           [p EXCEPT !.commands =
                              HashMapInsert(@, d.name,
                                 [path |-> fully_qualified_output(c, d),
                                  cmd |-> deployment_cmd(c, o, base, d,
                                              values_flags(vs.val))])])

RenderCmd_plan(c, o) ==
    IF doc_disabled(c) THEN Ok([EmptyPlan EXCEPT !.skip = TRUE])
    ELSE LET chart == to_str(c.chart)
         IN IF ~is_some(chart)
            THEN Err("failed to convert given chart path to string", c.chart.s)
            ELSE LET vs == get_values_as_strings(c.values)
                 IN IF ~vs.ok THEN vs
                    ELSE plan_deployments(c, o,
                           base_cmd(c, o, unwrap(chart), values_flags(vs.val)),
                           c.deployments,
                           [EmptyPlan EXCEPT !.pre_commands =
                                                pre_commands(o, unwrap(chart))])

(***************************************************************************)
(* RenderCmd::run_helm                                                     *)
(*                                                                         *)
(* helm_proc is what Exec::shell(cmd)...capture() yields: either the       *)
(* process could not be run (spawned = FALSE, the ? returns the error),    *)
(* or an ExitStatus and the merged stdout/stderr text.                     *)
(* A sink is the output (impl Write).  io_sink is std::io::sink(), which   *)
(* accepts everything.  A writer is the BufWriter over the output file:    *)
(* data is what the file holds, pending what the BufWriter holds in        *)
(* memory; when limited, the device holds capacity bytes and a write to    *)
(* the file that exceeds it fails after the part that fits.  received is   *)
(* the text the sink accepted through write_all.                           *)
(***************************************************************************)
Exited(code) == [kind |-> "Exited", code |-> code]
Signaled(sig) == [kind |-> "Signaled", code |-> sig]
Undetermined == [kind |-> "Undetermined", code |-> 0]

\* subprocess::ExitStatus::success
exit_success(st) == st.kind = "Exited" /\ st.code = 0

NoProc == [spawned |-> FALSE, exit_status |-> Undetermined, stdout |-> ""]
Captured(st, out) == [spawned |-> TRUE, exit_status |-> st, stdout |-> out]

IoSink == [kind |-> "io_sink", limited |-> FALSE, capacity |-> 0, data |-> "",
           pending |-> "", received |-> ""]
Writer(limited, capacity) ==
    [kind |-> "writer", limited |-> limited, capacity |-> capacity, data |-> "",
     pending |-> "", received |-> ""]

\* File::write_all: all of buf reaches the file, or the part that fits and
\* an error
file_write_all(snk, buf) ==
    IF snk.limited /\ Len(snk.data) + Len(buf) > snk.capacity
    THEN [ok |-> FALSE,
          sink |-> [snk EXCEPT !.data =
                       @ \o SubSeq(buf, 1, snk.capacity - Len(snk.data))]]
    ELSE [ok |-> TRUE, sink |-> [snk EXCEPT !.data = @ \o buf]]

\* BufWriter::flush_buf: the buffered text goes to the file; what was
\* written leaves the buffer also when the flush fails
flush_buf(snk) ==
    LET w == file_write_all(snk, snk.pending)
        n == Len(w.sink.data) - Len(snk.data)
    IN [ok |-> w.ok,
        sink |-> [w.sink EXCEPT !.pending = SubSeq(@, n + 1, Len(@))]]

\* BufWriter::write_all: a text shorter than the spare room is buffered;
\* otherwise the buffer is flushed when the text does not fit, and a text
\* of at least the buffer's capacity goes straight to the file
write_all(snk, buf) ==
    IF snk.kind = "io_sink"
    THEN [ok |-> TRUE, sink |-> [snk EXCEPT !.received = @ \o buf]]
    ELSE IF Len(buf) < BufCapacity - Len(snk.pending)
    THEN [ok |-> TRUE, sink |-> [snk EXCEPT !.pending = @ \o buf,
                                            !.received = @ \o buf]]
    ELSE LET f == IF Len(buf) > BufCapacity - Len(snk.pending)
                  THEN flush_buf(snk) ELSE [ok |-> TRUE, sink |-> snk]
         IN IF ~f.ok THEN f
            ELSE IF Len(buf) >= BufCapacity
            THEN LET w == file_write_all(f.sink, buf)
                     n == Len(w.sink.data) - Len(f.sink.data)
                 IN [ok |-> w.ok,
                     sink |-> [w.sink EXCEPT
                                  !.received = @ \o SubSeq(buf, 1, n)]]
            ELSE [ok |-> TRUE, sink |-> [f.sink EXCEPT !.pending = @ \o buf,
                                                       !.received = @ \o buf]]

\* the sink goes out of scope at the end of run_helm: BufWriter's Drop
\* flushes and ignores the result; lost tells that this flush failed
drop_writer(snk) ==
    IF snk.kind = "io_sink" THEN [sink |-> snk, lost |-> FALSE]
    ELSE LET f == flush_buf(snk)
         IN [sink |-> [f.sink EXCEPT !.pending = ""], lost |-> ~f.ok]

helm_failed_ExitStatusOnly(proc) == ~exit_success(proc.exit_status)

\* !result.exit_status.success() || result.stdout_str().contains("exit status 1")
helm_failed(proc) ==
    ~exit_success(proc.exit_status) \/ Contains(proc.stdout, "exit status 1")

run_helm_WritesBeforeCheck(cmd, proc, snk) ==
    IF ~proc.spawned
    THEN [ret |-> Err("capture failed", ""), sink |-> snk, lost |-> FALSE]
    ELSE LET w == write_all(snk, proc.stdout)
             d == drop_writer(w.sink)
         IN IF helm_failed(proc)
            THEN [ret |-> [ok |-> FALSE, msg |-> "failed while running helm",
                           value |-> cmd, output |-> proc.stdout],
                  sink |-> d.sink, lost |-> d.lost]
            ELSE IF ~w.ok
            THEN [ret |-> Err("can not write to output", ""),
                  sink |-> d.sink, lost |-> d.lost]
            ELSE [ret |-> Ok(TRUE), sink |-> d.sink, lost |-> d.lost]

\* the result and the sink after run_helm(cmd, output); output is owned by
\* the call and dropped when it returns
run_helm(cmd, proc, snk) ==
    IF ~proc.spawned
    THEN [ret |-> Err("capture failed", ""),
          sink |-> drop_writer(snk).sink, lost |-> drop_writer(snk).lost]
    ELSE IF helm_failed(proc)
    THEN [ret |-> [ok |-> FALSE, msg |-> "failed while running helm",
                   value |-> cmd, output |-> proc.stdout],
          sink |-> drop_writer(snk).sink, lost |-> drop_writer(snk).lost]
    ELSE LET w == write_all(snk, proc.stdout)
             d == drop_writer(w.sink)
         IN IF ~w.ok
            THEN [ret |-> Err("can not write to output", ""),
                  sink |-> d.sink, lost |-> d.lost]
            ELSE [ret |-> Ok(TRUE), sink |-> d.sink, lost |-> d.lost]

(***************************************************************************)
(* Inputs of the plan compiler.                                            *)
(***************************************************************************)
NotCalled == [ok |-> FALSE, msg |-> "not called", value |-> ""]

Min(a, b) == IF a <= b THEN a ELSE b

\* None, or the first k entries of pool, 0 <= k <= MaxList
OptLists(pool) ==
    {None} \cup {Some(SubSeq(pool, 1, k)) : k \in 0..Min(MaxList, Len(pool))}

SeqsUpTo(S, n) == UNION {[1..k -> S] : k \in 0..n}

DocValuePool ==
    <<PathBuf("some-base.yaml"), PathBuf("common.yaml"), PathBuf("extra.yaml")>>
DocOptionPool == <<"--no-hooks", "--debug", "--skip-tests">>
CliOptionPool == <<"--set-string=image.tag=424242a", "--debug", "--validate">>
PipePool == <<"grep images", "sort", "uniq">>
DepValuePool ==
    <<PathBuf("edge.yaml"), PathBuf("edge-eu.yaml"), PathBuf("edge-w4.yaml")>>
DepOptionPool == <<"--set=env=edge", "--no-hooks", "--set=replicas=2">>
BadValue == NonUtf8Path("bad-\\xFF.yaml")

DeploymentNames == {"edge_eu_w4", "prod_eu_w4"}

\* one deployment, every list of the command line varied
LayoutDeployments ==
    [name : {"edge"}, enabled : {None},
     release_name : {None, Some("edge-release")},
     additional_options : OptLists(DepOptionPool),
     values : OptLists(DepValuePool)]

LayoutConfigs ==
    [version : {"v1"}, helm_version : {None}, enabled : {None, Some(TRUE)},
     chart : {PathBuf("charts/some-chart")},
     namespace : {None, Some("default")},
     release_name : {"some-release"},
     output_path : {PathBuf("manifests")},
     additional_options : OptLists(DocOptionPool),
     values : OptLists(DocValuePool),
     deployments : {<<d>> : d \in LayoutDeployments}]

LayoutOpts ==
    [additional_options : OptLists(CliOptionPool),
     update_dependencies : {FALSE},
     filter : {None},
     pipe : OptLists(PipePool)]

\* several deployments, selection (document and deployment enabled, filter,
\* duplicate names) and dependency update varied
SelectionDeployments ==
    [name : DeploymentNames, enabled : {None, Some(TRUE), Some(FALSE)},
     release_name : {None, Some("edge-release")},
     additional_options : {None}, values : {None}]
    \cup
    [name : DeploymentNames, enabled : {None, Some(TRUE), Some(FALSE)},
     release_name : {None, Some("edge-release")},
     additional_options : {Some(SubSeq(DepOptionPool, 1, 1))},
     values : {Some(SubSeq(DepValuePool, 1, 1))}]

SelectionConfigs ==
    [version : {"v1"}, helm_version : {None}, enabled : {None, Some(TRUE), Some(FALSE)},
     chart : {PathBuf("charts/some-chart")},
     namespace : {Some("default")},
     release_name : {"some-release"},
     output_path : {PathBuf("manifests")},
     additional_options : {Some(SubSeq(DocOptionPool, 1, 1))},
     values : {Some(SubSeq(DocValuePool, 1, 1))},
     deployments : SeqsUpTo(SelectionDeployments, MaxDeployments)]

SelectionOpts ==
    [additional_options : {Some(SubSeq(CliOptionPool, 1, 1))},
     update_dependencies : BOOLEAN,
     filter : {None, Some("^prod"), Some("eu"), Some("^edge_eu_w4$")},
     pipe : {Some(SubSeq(PipePool, 1, 2))}]

\* paths that are not UTF-8 and a filter that does not compile
ConversionDeployments ==
    [name : DeploymentNames, enabled : {None},
     release_name : {None}, additional_options : {None},
     values : {None, Some(<<BadValue>>)}]
    \cup
    [name : DeploymentNames, enabled : {Some(FALSE)},
     release_name : {None}, additional_options : {None},
     values : {Some(<<BadValue>>)}]

ConversionConfigs ==
    [version : {"v1"}, helm_version : {None}, enabled : {Some(TRUE), Some(FALSE)},
     chart : {PathBuf("charts/some-chart"), NonUtf8Path("charts/\\xFF")},
     namespace : {None},
     release_name : {"some-release"},
     output_path : {PathBuf("manifests"), NonUtf8Path("out-\\xFF")},
     additional_options : {None},
     values : {None, Some(SubSeq(DocValuePool, 1, 1)),
               Some(<<DocValuePool[1], BadValue>>)},
     deployments : SeqsUpTo(ConversionDeployments, MaxDeployments)]

ConversionOpts ==
    [additional_options : {None},
     update_dependencies : {TRUE},
     filter : {None, Some("("), Some("eu")},
     pipe : {None}]

(***************************************************************************)
(* Inputs of the process runner.                                           *)
(***************************************************************************)
\* exec_plan hands a pre-command std::io::sink() and a deployment command
\* the writer of its output file
HelmCalls ==
    {[cmd |-> "helm dependencies update charts/some-chart", sink |-> IoSink]}
    \cup
    [cmd : {"helm template some-release charts/some-chart | grep images"},
     sink : {Writer(FALSE, 0), Writer(TRUE, 0), Writer(TRUE, 4)}]

ExitStatuses == {Exited(0), Exited(1), Exited(2), Signaled(9), Undetermined}

HelmOutputs ==
    {"", "kind: Deployment\n",
     "exit status 1",
     "Error: unknown command \"faulty-command\" for \"helm\"\n\texit status 1\n",
     "exit status 10",
     "exit status 0", "exit status", "Exit Status 1", "exit  status 1",
     "image: nginx\nexit status 2\n"}

NoFault == [kind |-> "none", arg |-> "", at |-> 0]

\* run() is not part of the specification: its variables stay as they are
RunIdle ==
    /\ input_files = <<>>
    /\ doc = 0
    /\ fs = <<>>
    /\ fs_doc = <<>>
    /\ fault = NoFault
    /\ pre_idx = 0
    /\ todo = {}
    /\ cur = ""
    /\ trace = <<>>
    /\ run_ret = NotCalled

\* ValidationOpts::default(); validate is not part of the specification
ValidateIdle ==
    /\ validation_opts = [skip_disabled |-> FALSE]
    /\ validate_ret = NotCalled

(***************************************************************************)
(* Specification of the plan compiler: plan() applied to one Config.       *)
(***************************************************************************)
InitPlan ==
    /\ \/ cfg \in LayoutConfigs /\ opts \in LayoutOpts
       \/ cfg \in SelectionConfigs /\ opts \in SelectionOpts
       \/ cfg \in ConversionConfigs /\ opts \in ConversionOpts
    /\ plan = NotCalled
    /\ pc = "plan"
    /\ helm_cmd = ""
    /\ helm_proc = NoProc
    /\ sink = IoSink
    /\ helm_ret = NotCalled
    /\ RunIdle
    /\ ValidateIdle

DoPlan ==
    /\ pc = "plan"
    /\ plan' = RenderCmd_plan(cfg, opts)
    /\ pc' = "planned"
    /\ UNCHANGED <<validate_vars, cfg, opts, helm_vars, run_vars>>

NextPlan == DoPlan

SpecPlan == InitPlan /\ [][NextPlan]_vars

(***************************************************************************)
(* Specification of the process runner: run_helm applied to one command.   *)
(***************************************************************************)
InitRunHelm ==
    /\ \E call \in HelmCalls : helm_cmd = call.cmd /\ sink = call.sink
    /\ helm_proc \in {NoProc} \cup
                     {Captured(st, out) : st \in ExitStatuses, out \in HelmOutputs}
    /\ helm_ret = NotCalled
    /\ pc = "run_helm"
    /\ cfg = [version |-> "v1", helm_version |-> None, enabled |-> None,
              chart |-> PathBuf("charts/some-chart"), namespace |-> None,
              release_name |-> "some-release",
              output_path |-> PathBuf("manifests"),
              additional_options |-> None, values |-> None,
              deployments |-> <<>>]
    /\ opts = [additional_options |-> None, update_dependencies |-> FALSE,
               filter |-> None, pipe |-> None]
    /\ plan = NotCalled
    /\ RunIdle
    /\ ValidateIdle

DoRunHelm ==
    /\ pc = "run_helm"
    /\ LET r == run_helm(helm_cmd, helm_proc, sink)
       IN /\ helm_ret' = r.ret
          /\ sink' = r.sink
    /\ pc' = "returned"
    /\ UNCHANGED <<validate_vars, plan_vars, helm_cmd, helm_proc, run_vars>>

NextRunHelm == DoRunHelm

SpecRunHelm == InitRunHelm /\ [][NextRunHelm]_vars

(***************************************************************************)
(* The filesystem seen by validate and exec_plan: a function from path     *)
(* text to a node, a directory or a file with its content.                 *)
(***************************************************************************)
Dir == [kind |-> "dir", data |-> ""]
File(data) == [kind |-> "file", data |-> data]

\* Path::exists
exists(f, p) == p.s \in DOMAIN f

\* Path::parent: the path without its last component
parent(p) ==
    LET i == LastIndexOf(p.s, "/")
    IN IF p.s = "" \/ p.s = "/" THEN None
       ELSE IF i = 0 THEN Some([p EXCEPT !.s = ""])
       ELSE IF i = 1 THEN Some([p EXCEPT !.s = "/"])
       ELSE Some([p EXCEPT !.s = SubSeq(p.s, 1, i - 1)])

\* q is p or lies below p
Under(q, p) == q = p \/ StartsWith(q, p \o "/")

\* p and the directories above it, the root and the current directory aside
Ancestors(p) ==
    {p} \cup {SubSeq(p, 1, i - 1) : i \in {j \in 2..Len(p) : SubSeq(p, j, j) = "/"}}

remove_dir_all_WithSiblings(f, p) ==
    Ok([q \in {r \in DOMAIN f : ~Under(r, unwrap(parent(p)).s)} |-> f[q]])

remove_dir_all_TopOnly(f, p) ==
    Ok([q \in (DOMAIN f) \ {p.s} |-> f[q]])

\* std::fs::remove_dir_all: the directory and everything below it
remove_dir_all(f, p) ==
    Ok([q \in {r \in DOMAIN f : ~Under(r, p.s)} |-> f[q]])

\* std::fs::create_dir_all: the directory and every missing one above it;
\* fails when one of them exists and is not a directory
create_dir_all(f, p) ==
    IF \E a \in Ancestors(p.s) : a \in DOMAIN f /\ f[a].kind # "dir"
    THEN Err("Not a directory (os error 20)", "")
    ELSE Ok([q \in (DOMAIN f) \cup Ancestors(p.s) |->
                IF q \in DOMAIN f THEN f[q] ELSE Dir])

\* std::fs::File::create: a new empty file, or the existing one truncated
File_create(f, p) ==
    IF \/ is_some(parent(p)) /\ unwrap(parent(p)).s \notin {"", "/"}
                             /\ ~exists(f, unwrap(parent(p)))
       \/ exists(f, p) /\ f[p.s].kind = "dir"
    THEN Err("can not create output file", "")
    ELSE Ok([q \in (DOMAIN f) \cup {p.s} |-> IF q = p.s THEN File("") ELSE f[q]])

\* cmd.join(" ")
RECURSIVE join(_)
join(cmd) ==
    IF cmd = <<>> THEN ""
    ELSE IF Len(cmd) = 1 THEN cmd[1]
    ELSE cmd[1] \o " " \o join(Tail(cmd))

(***************************************************************************)
(* Config::validate as run() calls it (skip_disabled = false).             *)
(***************************************************************************)
check_chart_exists_and_readable(c, f) ==
    IF ~exists(f, c.chart)
    THEN Err("Chart does not exist or is not readable", c.chart.s)
    ELSE Ok(TRUE)

check_pathbuf_vec(files, f) ==
    IF \E i \in 1..Len(files) : ~exists(f, files[i])
    THEN LET i == CHOOSE k \in 1..Len(files) :
                     /\ ~exists(f, files[k])
                     /\ \A j \in 1..(k - 1) : exists(f, files[j])
         IN Err("values file does not exist or is not readable", files[i].s)
    ELSE Ok(TRUE)

RECURSIVE check_deployment_values(_, _)
check_deployment_values(ds, f) ==
    IF ds = <<>> THEN Ok(TRUE)
    ELSE IF Head(ds).enabled = Some(FALSE) \/ ~is_some(Head(ds).values)
    THEN check_deployment_values(Tail(ds), f)
    ELSE LET r == check_pathbuf_vec(unwrap(Head(ds).values), f)
         IN IF ~r.ok THEN r ELSE check_deployment_values(Tail(ds), f)

check_value_files_exist_and_readable(c, f) ==
    LET r == IF is_some(c.values)
             THEN check_pathbuf_vec(unwrap(c.values), f) ELSE Ok(TRUE)
    IN IF ~r.ok THEN r ELSE check_deployment_values(c.deployments, f)

check_schema_version(c) ==
    IF c.version # "v1"
    THEN Err("invalid schema version used; only 'v1' is supported", c.version)
    ELSE Ok(TRUE)

check_if_at_least_one_deployment_is_enabled_EmptyPasses(c) ==
    IF c.deployments # <<>>
       /\ \A i \in 1..Len(c.deployments) : c.deployments[i].enabled = Some(FALSE)
    THEN Err("All deployments are disabled", "")
    ELSE Ok(TRUE)

check_if_at_least_one_deployment_is_enabled(c) ==
    IF \A i \in 1..Len(c.deployments) : c.deployments[i].enabled = Some(FALSE)
    THEN Err("All deployments are disabled", "")
    ELSE Ok(TRUE)

Config_validate(c, skip_disabled, f) ==
    IF c.enabled = Some(FALSE) /\ skip_disabled THEN Ok(TRUE)
    ELSE IF ~check_chart_exists_and_readable(c, f).ok
    THEN check_chart_exists_and_readable(c, f)
    ELSE IF ~check_value_files_exist_and_readable(c, f).ok
    THEN check_value_files_exist_and_readable(c, f)
    ELSE IF ~check_schema_version(c).ok THEN check_schema_version(c)
    ELSE check_if_at_least_one_deployment_is_enabled(c)

(***************************************************************************)
(* The environment of a run.  fault names the one thing that goes wrong    *)
(* while document fault.at is processed: a filesystem call that is         *)
(* refused ("deny", arg the call), the pre-command failing ("pre"), the    *)
(* command of deployment arg failing ("helm"), or the device of the output *)
(* files being full ("disk").  A command that runs prints a text that      *)
(* depends on the command alone.                                           *)
(***************************************************************************)
Fault(kind, arg, at) == [kind |-> kind, arg |-> arg, at |-> at]

denied(flt, d, call) == flt.kind = "deny" /\ flt.arg = call /\ flt.at = d

\* Exec::shell(cmd)...capture() of a pre-command
capture_pre(flt, d, cmd) ==
    IF flt.kind = "pre" /\ flt.at = d
    THEN Captured(Exited(1), "Error: no repository definition\n")
    ELSE Captured(Exited(0), "Update Complete.\n")

\* Exec::shell(cmd)...capture() of the command of deployment n
capture_deployment(flt, d, n, cmd) ==
    IF flt.kind = "helm" /\ flt.arg = n /\ flt.at = d
    THEN Captured(Exited(1), "Error: failed to render " \o cmd[3] \o "\n")
    ELSE Captured(Exited(0), "release: " \o cmd[3] \o "\n")

\* the BufWriter over the output file just created
output_writer(flt, d) ==
    IF flt.kind = "disk" /\ flt.at = d THEN Writer(TRUE, 4) ELSE Writer(FALSE, 0)

Event(op, name, arg, ok, d) ==
    [op |-> op, name |-> name, arg |-> arg, ok |-> ok, doc |-> d]

(***************************************************************************)
(* RenderCmd::exec_plan                                                    *)
(***************************************************************************)
pre_pending_Skipped(p, i) == FALSE

\* the loop over plan.pre_commands has an entry left
pre_pending(p, i) == i <= Len(p.pre_commands)

pre_failed_Ignored(r) == FALSE

\* self.run_helm(&cmd.join(" "), std::io::sink())?
pre_failed(r) == ~r.ok

deployment_failed_Ignored(r) == FALSE

\* self.run_helm(&cmd.1.join(" "), output_writer)?
deployment_failed(r) == ~r.ok

prepare_output_NoCleanup(f, flt, d, n, path) ==
    LET dir == unwrap(parent(path))
        mk == create_dir_all(f, dir)
        cr == File_create(mk.val, path)
    IN [ret |-> Ok(TRUE), fs |-> cr.val,
        events |-> <<Event("create_dir_all", n, dir.s, TRUE, d),
                     Event("create", n, path.s, TRUE, d)>>]

\* the output of one deployment is made ready: its directory removed when
\* it exists, created again, and the output file created in it; the first
\* call that fails ends exec_plan
prepare_output(f, flt, d, n, path) ==
    LET par == parent(path)
        dir == unwrap(par)
        rm == IF ~exists(f, dir) THEN Ok(f)
              ELSE IF denied(flt, d, "remove_dir_all")
              THEN Err("Permission denied (os error 13)", "")
              ELSE remove_dir_all(f, dir)
        rm_ev == IF exists(f, dir)
                 THEN <<Event("remove_dir_all", n, dir.s, rm.ok, d)>> ELSE <<>>
        mk == IF denied(flt, d, "create_dir_all")
              THEN Err("Permission denied (os error 13)", "")
              ELSE create_dir_all(rm.val, dir)
        mk_ev == <<Event("create_dir_all", n, dir.s, mk.ok, d)>>
        cr == IF denied(flt, d, "create")
              THEN Err("can not create output file", "")
              ELSE File_create(mk.val, path)
        cr_ev == <<Event("create", n, path.s, cr.ok, d)>>
    IN IF ~is_some(par)
       THEN [ret |-> Err("missing parent. this should never happen", ""),
             fs |-> f, events |-> <<>>]
       ELSE IF ~rm.ok THEN [ret |-> rm, fs |-> f, events |-> rm_ev]
       ELSE IF ~mk.ok THEN [ret |-> mk, fs |-> rm.val, events |-> rm_ev \o mk_ev]
       ELSE IF ~cr.ok
       THEN [ret |-> cr, fs |-> mk.val, events |-> rm_ev \o mk_ev \o cr_ev]
       ELSE [ret |-> Ok(TRUE), fs |-> cr.val,
             events |-> rm_ev \o mk_ev \o cr_ev]

(***************************************************************************)
(* Inputs of a run: the documents, the filesystem and the fault.           *)
(***************************************************************************)
RunDeployment(name, enabled, release, values) ==
    [name |-> name, enabled |-> enabled, release_name |-> release,
     additional_options |-> None, values |-> values]

dEdge == RunDeployment("edge", None, Some("eu"), None)
dEdgeEu == RunDeployment("edge/eu", None, None, None)
dProd == RunDeployment("prod", None, None, None)
dProdOff == RunDeployment("prod", Some(FALSE), None, None)
dSrv == RunDeployment("/srv", Some(TRUE), None, None)
dBad == RunDeployment("next", None, None, Some(<<BadValue>>))

RunConfigs(enabled, charts, values, deployments) ==
    [version : {"v1"}, helm_version : {None}, enabled : enabled,
     chart : charts, namespace : {None}, release_name : {"some-release"},
     output_path : {PathBuf("manifests")}, additional_options : {None},
     values : values, deployments : deployments]

RunOpts(update, filters) ==
    [additional_options : {None}, update_dependencies : update,
     filter : filters, pipe : {None}]

\* the charts and value files the documents name
FreshFs ==
    [q \in {"charts", "charts/some-chart", "charts/\\xFF", BadValue.s} |->
        IF q = BadValue.s THEN File("replicas: 1\n") ELSE Dir]

\* the same with the outputs an earlier run left
StaleOutputs ==
    [q \in {"manifests", "manifests/edge", "manifests/edge/eu",
            "manifests/edge/eu/manifest.yaml", "manifests/edge/eu/stale.txt",
            "manifests/prod", "manifests/prod/some-release",
            "manifests/prod/some-release/manifest.yaml",
            "manifests/prod/some-release/notes.txt",
            "manifests/prod/old-release",
            "manifests/prod/old-release/manifest.yaml"} |->
        IF q \in {"manifests/edge/eu/manifest.yaml",
                  "manifests/prod/some-release/manifest.yaml",
                  "manifests/prod/old-release/manifest.yaml"}
        THEN File("release: old\n")
        ELSE IF q \in {"manifests/edge/eu/stale.txt",
                       "manifests/prod/some-release/notes.txt"}
        THEN File("stale")
        ELSE Dir]

StaleFs ==
    [q \in (DOMAIN FreshFs) \cup (DOMAIN StaleOutputs) |->
        IF q \in DOMAIN FreshFs THEN FreshFs[q] ELSE StaleOutputs[q]]

\* one document executed, one thing going wrong
ExecDocuments ==
    RunConfigs({None}, {PathBuf("charts/some-chart")}, {None},
               SeqsUpTo({dEdge, dEdgeEu, dProd, dProdOff, dSrv}, MaxDeployments))

ExecFaults ==
    {NoFault, Fault("pre", "", 1), Fault("disk", "", 1)}
    \cup {Fault("deny", call, 1) :
             call \in {"remove_dir_all", "create_dir_all", "create"}}
    \cup {Fault("helm", n, 1) : n \in {"edge", "edge/eu", "prod", "/srv"}}

\* the same document given twice
TwiceDocuments ==
    RunConfigs({None}, {PathBuf("charts/some-chart")}, {None},
               SeqsUpTo({dEdge, dEdgeEu, dProd}, MaxDeployments))

TwiceFaults ==
    {NoFault, Fault("disk", "", 1), Fault("disk", "", 2), Fault("helm", "edge", 2)}

\* one document that plan() may refuse
RefusedDocuments ==
    RunConfigs({None, Some(FALSE)},
               {PathBuf("charts/some-chart"), NonUtf8Path("charts/\\xFF")},
               {None, Some(<<BadValue>>)},
               SeqsUpTo({dProd, dBad}, MaxDeployments))

\* two documents: the first disabled or not, valid or not; the second with
\* one deployment
FirstDocuments ==
    RunConfigs({None, Some(FALSE)}, {PathBuf("charts/some-chart")}, {None},
               {<<>>, <<dProdOff>>, <<dProd>>, <<dBad>>})

SecondDocuments ==
    RunConfigs({None, Some(FALSE)}, {PathBuf("charts/some-chart")}, {None},
               {<<dEdge>>})

MixedFaults ==
    {NoFault, Fault("pre", "", 1), Fault("helm", "prod", 1),
     Fault("deny", "create", 1)}

(***************************************************************************)
(* Specification of a run: RenderCmd::run over opts.input_files.           *)
(***************************************************************************)
InitRun ==
    /\ \/ /\ \E c \in ExecDocuments : input_files = <<c>>
          /\ opts \in RunOpts(BOOLEAN, {None})
          /\ fault \in ExecFaults
          /\ fs \in {FreshFs, StaleFs}
       \/ /\ \E c \in TwiceDocuments : input_files = <<c, c>>
          /\ opts \in RunOpts({FALSE}, {None})
          /\ fault \in TwiceFaults
          /\ fs \in {FreshFs, StaleFs}
       \/ /\ \E c \in RefusedDocuments : input_files = <<c>>
          /\ opts \in RunOpts({TRUE}, {None, Some("("), Some("^prod")})
          /\ fault = NoFault
          /\ fs = StaleFs
       \/ /\ \E c \in FirstDocuments, e \in SecondDocuments :
                input_files = <<c, e>>
          /\ opts \in RunOpts({TRUE}, {None})
          /\ fault \in MixedFaults
          /\ fs = StaleFs
    /\ doc = 1
    /\ fs_doc = fs
    /\ cfg = input_files[1]
    /\ plan = NotCalled
    /\ pc = "load"
    /\ pre_idx = 0
    /\ todo = {}
    /\ cur = ""
    /\ trace = <<>>
    /\ run_ret = NotCalled
    /\ helm_cmd = ""
    /\ helm_proc = NoProc
    /\ sink = IoSink
    /\ helm_ret = NotCalled
    /\ ValidateIdle

\* one turn of the loop over input_files up to exec_plan: the document is
\* validated and compiled; an error ends the run, a disabled document is
\* skipped
BeginDocument ==
    /\ pc = "load" /\ doc <= Len(input_files)
    /\ LET c == input_files[doc]
           v == Config_validate(c, validation_opts.skip_disabled, fs)
           p == RenderCmd_plan(c, opts)
       IN /\ cfg' = c
          /\ fs_doc' = fs
          /\ IF ~v.ok
             THEN /\ plan' = NotCalled /\ run_ret' = v /\ pc' = "done"
                  /\ UNCHANGED <<doc, pre_idx, todo>>
             ELSE /\ plan' = p
                  /\ IF ~p.ok
                     THEN /\ run_ret' = p /\ pc' = "done"
                          /\ UNCHANGED <<doc, pre_idx, todo>>
                     ELSE IF p.val.skip
                     THEN /\ doc' = doc + 1 /\ pc' = "load"
                          /\ UNCHANGED <<run_ret, pre_idx, todo>>
                     ELSE /\ pc' = "exec" /\ pre_idx' = 1
                          /\ todo' = DOMAIN p.val.commands
                          /\ UNCHANGED <<run_ret, doc>>
    /\ UNCHANGED <<validate_vars, opts, helm_vars, input_files, fs, fault, cur, trace>>

\* one turn of the loop over plan.pre_commands
RunPreCommand ==
    /\ pc = "exec" /\ pre_pending(plan.val, pre_idx)
    /\ LET e == plan.val.pre_commands[pre_idx]
           r == run_helm(join(e.cmd), capture_pre(fault, doc, e.cmd), IoSink)
       IN /\ trace' = Append(trace, Event("pre", e.key, join(e.cmd), r.ret.ok, doc))
          /\ IF pre_failed(r.ret)
             THEN run_ret' = r.ret /\ pc' = "done" /\ UNCHANGED pre_idx
             ELSE pre_idx' = pre_idx + 1 /\ UNCHANGED <<run_ret, pc>>
    /\ UNCHANGED <<validate_vars, plan_vars, helm_vars, input_files, doc, fs, fs_doc, fault,
                   todo, cur>>

\* one turn of the loop over plan.commands, up to the call of run_helm; the
\* HashMap yields its entries in an order of its own
PrepareOutput ==
    /\ pc = "exec" /\ ~pre_pending(plan.val, pre_idx)
    /\ \E n \in todo :
          LET r == prepare_output(fs, fault, doc, n, plan.val.commands[n].path)
          IN /\ fs' = r.fs
             /\ trace' = trace \o r.events
             /\ todo' = todo \ {n}
             /\ cur' = n
             /\ IF ~r.ret.ok
                THEN run_ret' = r.ret /\ pc' = "done"
                ELSE pc' = "helm" /\ UNCHANGED run_ret
    /\ UNCHANGED <<validate_vars, plan_vars, helm_vars, input_files, doc, fs_doc, fault, pre_idx>>

\* the call of run_helm for the deployment whose output file was created
RunDeploymentCommand ==
    /\ pc = "helm"
    /\ LET e == plan.val.commands[cur]
           r == run_helm(join(e.cmd),
                         capture_deployment(fault, doc, cur, e.cmd),
                         output_writer(fault, doc))
       IN /\ fs' = [fs EXCEPT ![e.path.s] = File(r.sink.data)]
          /\ trace' = trace
                \o <<Event("helm", cur, join(e.cmd), r.ret.ok, doc)>>
                \o (IF r.lost
                    THEN <<Event("flush", cur, e.path.s, FALSE, doc)>> ELSE <<>>)
          /\ IF deployment_failed(r.ret)
             THEN run_ret' = r.ret /\ pc' = "done"
             ELSE pc' = "exec" /\ UNCHANGED run_ret
    /\ UNCHANGED <<validate_vars, plan_vars, helm_vars, input_files, doc, fs_doc, fault,
                   pre_idx, todo, cur>>

\* exec_plan returns Ok: the loop over input_files goes on
FinishDocument ==
    /\ pc = "exec" /\ ~pre_pending(plan.val, pre_idx) /\ todo = {}
    /\ doc' = doc + 1
    /\ pc' = "load"
    /\ UNCHANGED <<validate_vars, plan_vars, helm_vars, input_files, fs, fs_doc, fault,
                   pre_idx, todo, cur, trace, run_ret>>

\* the loop over input_files is over: run returns Ok(())
FinishRun ==
    /\ pc = "load" /\ doc > Len(input_files)
    /\ run_ret' = Ok(TRUE)
    /\ pc' = "done"
    /\ UNCHANGED <<validate_vars, plan_vars, helm_vars, input_files, doc, fs, fs_doc, fault,
                   pre_idx, todo, cur, trace>>

NextRun ==
    \/ BeginDocument
    \/ RunPreCommand
    \/ PrepareOutput
    \/ RunDeploymentCommand
    \/ FinishDocument
    \/ FinishRun

SpecRun == InitRun /\ [][NextRun]_vars

(***************************************************************************)
(* Specification of the validation: Config::validate applied to one Config *)
(* with the charts and value files of FreshFs on disk.                     *)
(***************************************************************************)
MissingValue == PathBuf("missing.yaml")

dStage == RunDeployment("stage", Some(TRUE), None, None)
dStageOff == RunDeployment("stage", Some(FALSE), None, Some(<<MissingValue>>))
dLost == RunDeployment("lost", None, None, Some(<<MissingValue>>))

ValidateConfigs ==
    [version : {"v1", "v2"}, helm_version : {None},
     enabled : {None, Some(TRUE), Some(FALSE)},
     chart : {PathBuf("charts/some-chart"), PathBuf("charts/no-chart")},
     namespace : {None}, release_name : {"some-release"},
     output_path : {PathBuf("manifests")}, additional_options : {None},
     values : {None, Some(<<BadValue>>), Some(<<BadValue, MissingValue>>)},
     deployments : SeqsUpTo({dProd, dProdOff, dStage, dStageOff, dLost},
                            MaxDeployments)]

InitValidate ==
    /\ cfg \in ValidateConfigs
    /\ validation_opts \in [skip_disabled : BOOLEAN]
    /\ validate_ret = NotCalled
    /\ fs = FreshFs
    /\ fs_doc = FreshFs
    /\ pc = "validate"
    /\ opts = [additional_options |-> None, update_dependencies |-> FALSE,
               filter |-> None, pipe |-> None]
    /\ plan = NotCalled
    /\ helm_cmd = ""
    /\ helm_proc = NoProc
    /\ sink = IoSink
    /\ helm_ret = NotCalled
    /\ input_files = <<>>
    /\ doc = 0
    /\ fault = NoFault
    /\ pre_idx = 0
    /\ todo = {}
    /\ cur = ""
    /\ trace = <<>>
    /\ run_ret = NotCalled

DoValidate ==
    /\ pc = "validate"
    /\ validate_ret' = Config_validate(cfg, validation_opts.skip_disabled, fs)
    /\ pc' = "validated"
    /\ UNCHANGED <<plan_vars, helm_vars, run_vars, validation_opts>>

NextValidate == DoValidate

SpecValidate == InitValidate /\ [][NextValidate]_vars

(***************************************************************************)
(* What the claims speak about, stated from the inputs alone.              *)
(***************************************************************************)
Deps == cfg.deployments

ListOf(v) == IF v = <<>> THEN <<>> ELSE v[1]

\* does the filter pattern match the name (the patterns of the inputs)
FilterMatches(f, n) ==
    CASE f = "^prod" -> StartsWith(n, "prod")
      [] f = "eu" -> Contains(n, "eu")
      [] f = "^edge_eu_w4$" -> n = "edge_eu_w4"
      [] OTHER -> FALSE

FilterPasses(i) ==
    opts.filter = <<>> \/ FilterMatches(opts.filter[1], Deps[i].name)

\* deployment i is neither filtered out nor disabled
IncludedAt(i) == FilterPasses(i) /\ Deps[i].enabled # <<FALSE>>

\* deployment i is included and no later included deployment has its name
SurvivesAt(i) ==
    /\ IncludedAt(i)
    /\ \A j \in (i + 1)..Len(Deps) :
          ~(IncludedAt(j) /\ Deps[j].name = Deps[i].name)

\* plan() returned a plan of a document that is not disabled
Compiled == pc = "planned" /\ plan.ok /\ cfg.enabled # <<FALSE>>

Commands == plan.val.commands

EffectiveReleaseName(i) ==
    IF Deps[i].release_name = <<>>
    THEN cfg.release_name ELSE Deps[i].release_name[1]

ValueTokens(v) == [k \in 1..Len(ListOf(v)) |-> "--values=" \o ListOf(v)[k].s]

NamespaceTokens ==
    IF cfg.namespace = <<>> THEN <<>> ELSE <<"--namespace=" \o cfg.namespace[1]>>

PipeTokens == [k \in 1..Len(ListOf(opts.pipe)) |-> "| " \o ListOf(opts.pipe)[k]]

CliOptions == ListOf(opts.additional_options)

\* number of tokens up to and including the document-level options
DocumentPartLen ==
    4 + Len(NamespaceTokens) + Len(ListOf(cfg.values))
      + Len(ListOf(cfg.additional_options))

DeploymentPartLen(i) ==
    Len(ListOf(Deps[i].values)) + Len(ListOf(Deps[i].additional_options))

ExpectedLen(i) ==
    DocumentPartLen + Len(CliOptions) + DeploymentPartLen(i) + Len(PipeTokens)

ExpectedCmd(i) ==
    <<"helm", "template", EffectiveReleaseName(i), cfg.chart.s>>
    \o NamespaceTokens
    \o ValueTokens(cfg.values)
    \o ListOf(cfg.additional_options)
    \o CliOptions
    \o ValueTokens(Deps[i].values)
    \o ListOf(Deps[i].additional_options)
    \o PipeTokens

HasEntry(i) == Deps[i].name \in DOMAIN Commands

CmdOf(i) == Commands[Deps[i].name].cmd

(***************************************************************************)
(* C1: for a document with enabled = false, whatever the deployments and   *)
(* the CLI overrides, plan() succeeds with skip = true, no commands and no *)
(* pre-commands.                                                           *)
(***************************************************************************)
C1_DisabledDocumentIsSkipped ==
    (pc = "planned" /\ cfg.enabled = <<FALSE>>) =>
        /\ plan.ok
        /\ plan.val.skip = TRUE
        /\ DOMAIN plan.val.commands = {}
        /\ plan.val.pre_commands = <<>>

C1_Witness ==
    /\ pc = "planned" /\ cfg.enabled = <<FALSE>>
    /\ opts.update_dependencies /\ opts.filter # <<>> /\ opts.pipe # <<>>
    /\ \E i \in 1..Len(Deps) : IncludedAt(i)
    /\ plan.ok /\ plan.val.skip

(***************************************************************************)
(* C2 as stated: for every enabled document and every deployment with      *)
(* enabled = false, commands has no entry under that deployment's name.    *)
(***************************************************************************)
C2_Original ==
    Compiled =>
        \A i \in 1..Len(Deps) :
            Deps[i].enabled = <<FALSE>> => ~HasEntry(i)

(***************************************************************************)
(* C2 amended: for every enabled document and every deployment with        *)
(* enabled = false, commands has an entry under that deployment's name     *)
(* only if another deployment of the same name is included (passes the     *)
(* filter and is not disabled); the disabled deployment contributes none.  *)
(***************************************************************************)
C2_DisabledDeploymentNotPlanned ==
    Compiled =>
        \A i \in 1..Len(Deps) :
            (Deps[i].enabled = <<FALSE>> /\ HasEntry(i)) =>
                \E j \in 1..Len(Deps) :
                    /\ j # i
                    /\ Deps[j].name = Deps[i].name
                    /\ IncludedAt(j)
                    /\ SurvivesAt(j)
                    /\ CmdOf(i) = ExpectedCmd(j)

C2_Witness ==
    /\ Compiled
    /\ \E i, j \in 1..Len(Deps) :
          /\ Deps[i].enabled = <<FALSE>> /\ FilterPasses(i) /\ ~HasEntry(i)
          /\ Deps[j].name # Deps[i].name /\ HasEntry(j)

(***************************************************************************)
(* C3 as stated: with a filter, a deployment whose name the filter does    *)
(* not match has no entry, and a deployment whose name it matches has one. *)
(***************************************************************************)
C3_Original ==
    (Compiled /\ opts.filter # <<>>) =>
        \A i \in 1..Len(Deps) :
            /\ ~FilterPasses(i) => ~HasEntry(i)
            /\ FilterPasses(i) => HasEntry(i)

(***************************************************************************)
(* C3 amended: with a filter, a deployment whose name the filter does not  *)
(* match has no entry under its name, and a deployment whose name it       *)
(* matches and that is not disabled (enabled is not false) has one.        *)
(***************************************************************************)
C3_FilterSelectsByName ==
    (Compiled /\ opts.filter # <<>>) =>
        \A i \in 1..Len(Deps) :
            /\ ~FilterPasses(i) => ~HasEntry(i)
            /\ (FilterPasses(i) /\ Deps[i].enabled # <<FALSE>>) => HasEntry(i)

C3_Witness ==
    /\ Compiled /\ opts.filter # <<>>
    /\ \E i, j \in 1..Len(Deps) :
          /\ ~FilterPasses(i) /\ Deps[i].enabled # <<FALSE>> /\ ~HasEntry(i)
          /\ FilterPasses(j) /\ HasEntry(j)
          /\ ~StartsWith(Deps[j].name, opts.filter[1])

(***************************************************************************)
(* C4: the third token of an included deployment's argument list is the    *)
(* deployment's releaseName when it sets one and the document's otherwise; *)
(* the slot is replaced (no token is added, the tokens around it stay) and *)
(* every other deployment keeps its own release-name token.                *)
(***************************************************************************)
C4_ReleaseNameToken ==
    Compiled =>
        \A i \in 1..Len(Deps) :
            SurvivesAt(i) =>
                /\ HasEntry(i)
                /\ Len(CmdOf(i)) = ExpectedLen(i)
                /\ CmdOf(i)[3] = EffectiveReleaseName(i)
                /\ CmdOf(i)[1] = "helm" /\ CmdOf(i)[2] = "template"
                /\ CmdOf(i)[4] = cfg.chart.s

C4_Witness ==
    /\ Compiled
    /\ \E i, j \in 1..Len(Deps) :
          /\ SurvivesAt(i) /\ SurvivesAt(j) /\ HasEntry(i) /\ HasEntry(j)
          /\ Deps[i].release_name # <<>> /\ Deps[j].release_name = <<>>
          /\ CmdOf(i)[3] = Deps[i].release_name[1]
          /\ CmdOf(j)[3] = cfg.release_name
          /\ CmdOf(i)[3] # CmdOf(j)[3]

C6_CliOptionsAfterDocumentOptions ==
    Compiled =>
        \A i \in 1..Len(Deps) :
            SurvivesAt(i) =>
                /\ HasEntry(i)
                /\ Len(CmdOf(i)) >= DocumentPartLen + Len(CliOptions)
                                      + DeploymentPartLen(i)
                /\ SubSeq(CmdOf(i),
                          DocumentPartLen - Len(ListOf(cfg.additional_options)) + 1,
                          DocumentPartLen) = ListOf(cfg.additional_options)
                /\ SubSeq(CmdOf(i), DocumentPartLen + 1,
                          DocumentPartLen + Len(CliOptions)) = CliOptions
                /\ SubSeq(CmdOf(i), DocumentPartLen + Len(CliOptions) + 1,
                          DocumentPartLen + Len(CliOptions) + DeploymentPartLen(i))
                   = ValueTokens(Deps[i].values)
                       \o ListOf(Deps[i].additional_options)

C6_Witness ==
    /\ Compiled
    /\ CliOptions # <<>> /\ ListOf(cfg.additional_options) # <<>>
    /\ \E i, j \in 1..Len(Deps) :
          /\ Deps[i].name # Deps[j].name
          /\ SurvivesAt(i) /\ SurvivesAt(j) /\ HasEntry(i) /\ HasEntry(j)
          /\ DeploymentPartLen(i) = 2 /\ DeploymentPartLen(j) = 0
          /\ CmdOf(i)[DocumentPartLen + 1] = CliOptions[1]
          /\ CmdOf(j)[DocumentPartLen + 1] = CliOptions[1]

(***************************************************************************)
(* C7 as stated: the CLI options come last in every included deployment's  *)
(* argument list, after the document-level and the deployment-level        *)
(* options (the pipe tokens aside).                                        *)
(***************************************************************************)
C7_Original ==
    Compiled =>
        \A i \in 1..Len(Deps) :
            (SurvivesAt(i) /\ HasEntry(i)
               /\ Len(CmdOf(i)) = ExpectedLen(i)) =>
                SubSeq(CmdOf(i), DocumentPartLen + DeploymentPartLen(i) + 1,
                       DocumentPartLen + DeploymentPartLen(i) + Len(CliOptions))
                = CliOptions

(***************************************************************************)
(* C7 amended: the CLI options are appended to the command shared by all   *)
(* deployments, after the document-level options and before the           *)
(* deployment-level values and options, which are the last tokens ahead of *)
(* the pipe tokens; the CLI block is the same, at the same place, for      *)
(* every included deployment.                                              *)
(***************************************************************************)
C7_CliOptionsPrecedeDeploymentLevel ==
    Compiled =>
        \A i \in 1..Len(Deps) :
            SurvivesAt(i) =>
                /\ HasEntry(i)
                /\ Len(CmdOf(i)) = ExpectedLen(i)
                /\ LET tail == Len(PipeTokens) + DeploymentPartLen(i)
                   IN /\ SubSeq(CmdOf(i),
                                Len(CmdOf(i)) - tail - Len(CliOptions) + 1,
                                Len(CmdOf(i)) - tail) = CliOptions
                      /\ SubSeq(CmdOf(i),
                                Len(CmdOf(i)) - tail + 1,
                                Len(CmdOf(i)) - Len(PipeTokens))
                         = ValueTokens(Deps[i].values)
                             \o ListOf(Deps[i].additional_options)
                /\ \A j \in 1..Len(Deps) :
                      (SurvivesAt(j) /\ HasEntry(j)) =>
                          \A k \in 1..(DocumentPartLen + Len(CliOptions)) :
                              /\ k <= Len(CmdOf(j))
                              /\ k # 3 => CmdOf(j)[k] = CmdOf(i)[k]

C7_Witness ==
    /\ Compiled
    /\ CliOptions # <<>>
    /\ \E i, j \in 1..Len(Deps) :
          /\ Deps[i].name # Deps[j].name
          /\ SurvivesAt(i) /\ SurvivesAt(j) /\ HasEntry(i) /\ HasEntry(j)
          /\ Deps[i].additional_options # <<>> /\ Deps[i].values # <<>>
          /\ DeploymentPartLen(i) = 2
          /\ CmdOf(i)[Len(CmdOf(i)) - Len(PipeTokens)]
               = Deps[i].additional_options[1][1]
          /\ CmdOf(i)[DocumentPartLen + Len(CliOptions)]
               = CliOptions[Len(CliOptions)]

(***************************************************************************)
(* C8: for a document that is not disabled, a plan made with               *)
(* updateDependencies = true has exactly one pre-command, keyed            *)
(* "helm-dependency-update", with value helm dependencies update <chart>;  *)
(* with updateDependencies = false it has none; whatever the deployments,  *)
(* also when all are filtered out or disabled.                             *)
(***************************************************************************)
C8_DependencyUpdatePreCommand ==
    Compiled =>
        IF opts.update_dependencies
        THEN plan.val.pre_commands =
               <<[key |-> "helm-dependency-update",
                  cmd |-> <<"helm", "dependencies", "update", cfg.chart.s>>]>>
        ELSE plan.val.pre_commands = <<>>

C8_Witness ==
    /\ Compiled /\ opts.update_dependencies
    /\ Len(Deps) >= 2
    /\ \E i \in 1..Len(Deps) : ~FilterPasses(i)
    /\ \E i \in 1..Len(Deps) : FilterPasses(i) /\ Deps[i].enabled = <<FALSE>>
    /\ \A i \in 1..Len(Deps) : ~IncludedAt(i)
    /\ DOMAIN Commands = {}
    /\ Len(plan.val.pre_commands) = 1

(***************************************************************************)
(* C9: with pipe commands p1..pn, every included deployment's argument     *)
(* list ends with exactly the n tokens "| p1" .. "| pn" in that order,     *)
(* after all values and options, and no pre-command holds a pipe token.    *)
(***************************************************************************)
C9_PipeTokensTrail ==
    (Compiled /\ opts.pipe # <<>>) =>
        /\ \A i \in 1..Len(Deps) :
              SurvivesAt(i) =>
                  /\ HasEntry(i)
                  /\ Len(CmdOf(i)) >= Len(opts.pipe[1])
                  /\ LET n == Len(opts.pipe[1])
                         body == Len(CmdOf(i)) - n
                     IN /\ \A k \in 1..n :
                              CmdOf(i)[body + k] = "| " \o opts.pipe[1][k]
                        /\ \A k \in 1..body : ~StartsWith(CmdOf(i)[k], "| ")
                        /\ body = DocumentPartLen + Len(CliOptions)
                                    + DeploymentPartLen(i)
        /\ \A e \in 1..Len(plan.val.pre_commands) :
              \A k \in 1..Len(plan.val.pre_commands[e].cmd) :
                  ~StartsWith(plan.val.pre_commands[e].cmd[k], "| ")

C9_Witness ==
    /\ Compiled /\ opts.pipe # <<>> /\ Len(opts.pipe[1]) = 2
    /\ opts.update_dependencies /\ Len(plan.val.pre_commands) = 1
    /\ \E i \in 1..Len(Deps) :
          /\ SurvivesAt(i) /\ HasEntry(i)
          /\ Deps[i].additional_options # <<>>
          /\ CmdOf(i)[Len(CmdOf(i)) - 1] = "| grep images"
          /\ CmdOf(i)[Len(CmdOf(i))] = "| sort"

(***************************************************************************)
(* C10 as stated: run_helm reports success if and only if the exit status  *)
(* is success and the captured output does not contain "exit status 1".    *)
(***************************************************************************)
C10_Original ==
    (pc = "returned" /\ helm_proc.spawned) =>
        (helm_ret.ok <=>
            /\ helm_proc.exit_status = Exited(0)
            /\ ~Contains(helm_proc.stdout, "exit status 1"))

\* write_all of buf into the sink the call was given succeeds
SinkTakes(snk, buf) ==
    \/ snk.kind = "io_sink" \/ ~snk.limited \/ Len(buf) <= snk.capacity
    \/ Len(buf) < BufCapacity

(***************************************************************************)
(* C10 amended: run_helm reports success if and only if the exit status is *)
(* success, the captured output does not contain "exit status 1", and      *)
(* writing the captured output to the sink succeeds; exit code zero with   *)
(* the substring in the output is a failure, and a nonzero exit code       *)
(* without the substring is a failure.                                     *)
(***************************************************************************)
C10_RunHelmSuccess ==
    (pc = "returned" /\ helm_proc.spawned) =>
        /\ helm_ret.ok <=>
              /\ helm_proc.exit_status = Exited(0)
              /\ ~Contains(helm_proc.stdout, "exit status 1")
              /\ SinkTakes(sink, helm_proc.stdout)
        /\ (helm_proc.exit_status = Exited(0)
              /\ helm_proc.stdout \in
                   {"exit status 1", "exit status 10",
                    "Error: unknown command \"faulty-command\" for \"helm\"\n\texit status 1\n"})
           => ~helm_ret.ok
        /\ (helm_proc.exit_status # Exited(0)
              /\ helm_proc.stdout \in {"", "kind: Deployment\n", "exit status 0"})
           => ~helm_ret.ok

C10_Witness ==
    /\ pc = "returned" /\ helm_proc.spawned
    /\ helm_ret.ok
    /\ sink.kind = "writer"
    /\ helm_proc.stdout = "image: nginx\nexit status 2\n"
    /\ sink.data = helm_proc.stdout

(***************************************************************************)
(* C11 as stated: when run_helm succeeds the sink has received exactly the *)
(* full captured output, once; when run_helm fails nothing is written to   *)
(* the sink and the error carries the command line and the captured        *)
(* output.                                                                 *)
(***************************************************************************)
C11_Original ==
    pc = "returned" =>
        /\ helm_ret.ok => sink.received = helm_proc.stdout
        /\ ~helm_ret.ok =>
              /\ sink.received = "" /\ sink.data = ""
              /\ helm_ret.value = helm_cmd
              /\ "output" \in DOMAIN helm_ret
              /\ helm_ret.output = helm_proc.stdout

\* the command ran and failed by exit status or by the marker in its output
HelmReportedFailure ==
    /\ helm_proc.spawned
    /\ \/ helm_proc.exit_status # Exited(0)
       \/ Contains(helm_proc.stdout, "exit status 1")

(***************************************************************************)
(* C11 amended: when run_helm succeeds the sink has received exactly the   *)
(* full captured output, once.  When it fails because the command could    *)
(* not be run, or because the exit status is not success or the output     *)
(* contains "exit status 1", nothing is written to the sink, and in the    *)
(* latter case the error carries the command line and the captured output. *)
(* When it fails because writing to the sink fails, the error is the write *)
(* error and the sink holds at most a proper prefix of the output.         *)
(***************************************************************************)
C11_SinkReceivesOutputOnSuccessOnly ==
    pc = "returned" =>
        /\ helm_ret.ok =>
              /\ sink.received = helm_proc.stdout
              /\ ~HelmReportedFailure
        /\ ~helm_proc.spawned =>
              ~helm_ret.ok /\ sink.received = "" /\ sink.data = ""
        /\ HelmReportedFailure =>
              /\ ~helm_ret.ok
              /\ sink.received = "" /\ sink.data = ""
              /\ helm_ret.value = helm_cmd
              /\ "output" \in DOMAIN helm_ret
              /\ helm_ret.output = helm_proc.stdout
        /\ (helm_proc.spawned /\ ~HelmReportedFailure /\ ~helm_ret.ok) =>
              /\ helm_ret.msg = "can not write to output"
              /\ ~SinkTakes(sink, helm_proc.stdout)
              /\ Len(sink.received) < Len(helm_proc.stdout)
              /\ sink.received = SubSeq(helm_proc.stdout, 1, Len(sink.received))
              /\ sink.data = sink.received

C11_Witness ==
    /\ pc = "returned"
    /\ sink.kind = "writer" /\ ~sink.limited
    /\ helm_proc.exit_status = Exited(0)
    /\ Contains(helm_proc.stdout, "unknown command")
    /\ ~helm_ret.ok
    /\ sink.received = "" /\ sink.data = ""
    /\ helm_ret.value = helm_cmd /\ helm_ret.output = helm_proc.stdout

(***************************************************************************)
(* What the claims about a run speak about.                                *)
(***************************************************************************)
\* the events of document d, in the order they happened
EventsOf(d) == SelectSeq(trace, LAMBDA e : e.doc = d)

\* the deployments of document d in the order exec_plan ran their commands
OrderOf(d) ==
    LET hs == SelectSeq(trace, LAMBDA e : e.doc = d /\ e.op = "helm")
    IN [i \in 1..Len(hs) |-> hs[i].name]

Finished == pc = "done" /\ run_ret.ok

\* the same document was executed twice, both times with success and with
\* the commands in the same order
ExecutedTwice ==
    /\ Finished
    /\ Len(input_files) = 2 /\ input_files[1] = input_files[2]
    /\ plan.ok /\ ~plan.val.skip
    /\ OrderOf(1) = OrderOf(2)
    /\ Len(OrderOf(2)) = Cardinality(DOMAIN Commands)

\* a file that was there before the run and is no planned output
LeftOver(q) ==
    /\ q \in DOMAIN StaleOutputs /\ StaleOutputs[q].kind = "file"
    /\ \A n \in DOMAIN Commands : Commands[n].path.s # q

OutputDirOf(n) ==
    SubSeq(Commands[n].path.s, 1, LastIndexOf(Commands[n].path.s, "/") - 1)

(***************************************************************************)
(* C12 as stated: after the same plan was executed twice against the same  *)
(* output path, every command succeeding with the same output both times,  *)
(* every output file holds what it held after the first execution, and no  *)
(* file that was under a deployment's output directory before the runs is  *)
(* left.  (Stated for two executions that both return success and take     *)
(* the commands in the same order.)                                        *)
(***************************************************************************)
C12_Original ==
    ExecutedTwice =>
        /\ \A n \in DOMAIN Commands :
              LET q == Commands[n].path.s
              IN (q \in DOMAIN fs) = (q \in DOMAIN fs_doc)
                 /\ (q \in DOMAIN fs => fs[q] = fs_doc[q])
        /\ \A q \in DOMAIN fs :
              LeftOver(q) => \A n \in DOMAIN Commands : ~Under(q, OutputDirOf(n))

\* the pre-commands of document d, as the inputs have them
ExpectedPre(d) ==
    IF opts.update_dependencies
    THEN <<[key |-> "helm-dependency-update",
            line |-> "helm dependencies update " \o input_files[d].chart.s]>>
    ELSE <<>>

OutputOps == {"remove_dir_all", "create_dir_all", "create", "helm", "flush"}

(***************************************************************************)
(* C13: in every execution of exec_plan, before any deployment command is  *)
(* started and before any output directory is removed or created, all      *)
(* pre-commands have been run, each once, in the insertion order of        *)
(* pre_commands, and all have succeeded; no pre-command runs later.        *)
(***************************************************************************)
C13_PreCommandsFirst ==
    \A d \in 1..Len(input_files) :
        LET es == EventsOf(d)
            n == Len(ExpectedPre(d))
        IN /\ (\E i \in 1..Len(es) : es[i].op \in OutputOps) =>
                 /\ Len(es) > n
                 /\ \A k \in 1..n :
                       /\ es[k].op = "pre" /\ es[k].ok
                       /\ es[k].name = ExpectedPre(d)[k].key
                       /\ es[k].arg = ExpectedPre(d)[k].line
           /\ \A i \in 1..Len(es) : es[i].op = "pre" => i <= n

C13_Witness ==
    /\ Finished
    /\ Len(trace) >= 8
    /\ trace[1].op = "pre" /\ trace[1].ok
    /\ trace[2].op = "remove_dir_all"
    /\ \E i, j \in 3..Len(trace) :
          /\ trace[i].op = "helm" /\ trace[j].op = "helm"
          /\ trace[i].name # trace[j].name

\* the command of the deployment being executed is the one that fails
CommandFails ==
    pc = "helm" /\ fault.kind = "helm" /\ fault.arg = cur /\ fault.at = doc

Planned == plan.ok /\ ~plan.val.skip /\ cfg.enabled # <<FALSE>>

PathOf(i) == Commands[Deps[i].name].path.s

\* outputPath/<deployment name>/<effective release name>
LayoutDir(i) ==
    cfg.output_path.s \o "/" \o Deps[i].name \o "/" \o EffectiveReleaseName(i)

\* the same when the name is an absolute path, which replaces outputPath
JoinedDir(i) ==
    IF SubSeq(Deps[i].name, 1, 1) = "/"
    THEN Deps[i].name \o "/" \o EffectiveReleaseName(i)
    ELSE LayoutDir(i)

\* a prefix of q that ends before a separator, or q
IsAbove(p, q) == p = q \/ (Len(p) < Len(q) /\ SubSeq(q, 1, Len(p) + 1) = p \o "/")

\* the directories of deployment i and of another planned deployment are
\* equal or one lies within the other
Nested(i) ==
    \E j \in 1..Len(Deps) :
        /\ SurvivesAt(j) /\ Deps[j].name # Deps[i].name
        /\ IsAbove(JoinedDir(i), JoinedDir(j)) \/ IsAbove(JoinedDir(j), JoinedDir(i))

\* deployment i is not in the plan, by itself or by its name
Excluded(i) ==
    \A j \in 1..Len(Deps) : Deps[j].name = Deps[i].name => ~IncludedAt(j)

BadFilter == opts.filter = <<"(">>

\* the chart and the document's value files convert to strings
DocumentConverts ==
    cfg.chart.utf8 /\ \A k \in 1..Len(ListOf(cfg.values)) : ListOf(cfg.values)[k].utf8

(***************************************************************************)
(* C16 as stated: whenever the CLI filter is a pattern that does not       *)
(* compile as a regular expression, plan() returns an error and no plan.   *)
(***************************************************************************)
C16_Original ==
    (pc = "planned" /\ BadFilter) => ~plan.ok

(***************************************************************************)
(* C16 amended: whenever the CLI filter does not compile, plan() returns   *)
(* an error and no plan if the document is not disabled and has at least   *)
(* one deployment; the error is that of the pattern when the chart and the *)
(* document's value files convert.  The pattern is compiled when the first *)
(* deployment is reached: for a disabled document plan() returns the       *)
(* skipped plan, and for a document without deployments a plan without     *)
(* commands.                                                               *)
(***************************************************************************)
C16_BadFilterFailsAtFirstDeployment ==
    (pc = "planned" /\ BadFilter) =>
        /\ (cfg.enabled # <<FALSE>> /\ Len(Deps) >= 1) =>
              /\ ~plan.ok
              /\ DocumentConverts =>
                    plan.msg = "regex parse error" /\ plan.value = "("
        /\ cfg.enabled = <<FALSE>> => plan.ok /\ plan.val.skip
        /\ (cfg.enabled # <<FALSE>> /\ Len(Deps) = 0 /\ DocumentConverts) =>
              plan.ok /\ ~plan.val.skip /\ DOMAIN plan.val.commands = {}

C16_Witness ==
    /\ pc = "planned" /\ BadFilter
    /\ cfg.enabled = <<TRUE>> /\ Len(Deps) = 2 /\ DocumentConverts
    /\ Deps[1].enabled = <<FALSE>>
    /\ ~plan.ok /\ plan.msg = "regex parse error" /\ plan.value = "("

\* nothing but the chart path and the output path can make plan() fail:
\* the filter compiles or no deployment is there to apply it to, and the
\* value files of the document and of the included deployments convert
RestConverts ==
    /\ \A k \in 1..Len(ListOf(cfg.values)) : ListOf(cfg.values)[k].utf8
    /\ ~BadFilter \/ Len(Deps) = 0
    /\ \A i \in 1..Len(Deps) :
          IncludedAt(i) =>
              \A k \in 1..Len(ListOf(Deps[i].values)) :
                  ListOf(Deps[i].values)[k].utf8

ChartError == "failed to convert given chart path to string"

PlanMustFail ==
    /\ \E i \in 1..Len(Deps) : Deps[i].enabled # <<FALSE>>
    /\ cfg.enabled # <<FALSE>>
    /\ ~(cfg.chart.utf8 /\ RestConverts)

(***************************************************************************)
(* C18: if plan() fails for a document, the run ends with that error and   *)
(* nothing of the document is executed: no pre-command and no deployment   *)
(* command is run and no directory or file is removed, created or written, *)
(* also when deployments ahead of the failing one were compiled.           *)
(***************************************************************************)
C18_NoPartialPlanExecuted ==
    (PlanMustFail /\ pc # "load") =>
        /\ pc = "done" /\ ~run_ret.ok
        /\ run_ret.msg \in {ChartError, "failed to convert to string",
                            "regex parse error"}
        /\ EventsOf(doc) = <<>>
        /\ fs = fs_doc
        /\ todo = {} /\ cur = ""

C18_Witness ==
    /\ pc = "done" /\ PlanMustFail
    /\ opts.update_dependencies
    /\ Len(Deps) = 2
    /\ IncludedAt(1) /\ ListOf(Deps[1].values) = <<>>
    /\ IncludedAt(2) /\ ListOf(Deps[2].values) # <<>>
    /\ ~run_ret.ok /\ run_ret.msg = "failed to convert to string"
    /\ trace = <<>>
    /\ "manifests/prod/some-release/notes.txt" \in DOMAIN fs

\* call i of the trace is a filesystem call that failed
FsFailure(i) ==
    /\ trace[i].op \in {"remove_dir_all", "create_dir_all", "create", "flush"}
    /\ ~trace[i].ok

\* the run ended with the error of writing the output
WriteFailed ==
    pc = "done" /\ ~run_ret.ok /\ run_ret.msg = "can not write to output"

(***************************************************************************)
(* C19 as stated, its first part: every filesystem error during the        *)
(* removal of an output directory, the creation of a directory, the        *)
(* creation of an output file or the writing of the output in exec_plan    *)
(* aborts the run with an error: the failed call is the last one and the   *)
(* run returns an error.  (The second part, that the error carries the     *)
(* path involved, is C19_ErrorCarriesPath.)                                *)
(***************************************************************************)
C19_Original ==
    pc = "done" =>
        \A i \in 1..Len(trace) :
            FsFailure(i) => ~run_ret.ok /\ i = Len(trace)

\* the error of a failed filesystem call carries the path of the call
C19_ErrorCarriesPath ==
    pc = "done" =>
        /\ \A i \in 1..Len(trace) :
              (FsFailure(i) /\ ~run_ret.ok /\ i = Len(trace)) =>
                  run_ret.value = trace[i].arg
        /\ WriteFailed => run_ret.value = plan.val.commands[cur].path.s

\* the last deployment that has the name of deployment i
LastOfName(i) ==
    CHOOSE l \in i..Len(Deps) :
        /\ Deps[l].name = Deps[i].name
        /\ \A k \in (l + 1)..Len(Deps) : Deps[k].name # Deps[i].name

Duplicated(i) == \E j \in 1..Len(Deps) : j # i /\ Deps[j].name = Deps[i].name

(***************************************************************************)
(* C20 as stated: when two deployments of one document have the same name, *)
(* commands holds at most one entry for the name and that entry, output    *)
(* path and argument list, is the one compiled from the later deployment.  *)
(***************************************************************************)
C20_Original ==
    Compiled =>
        \A i \in 1..Len(Deps) :
            (Duplicated(i) /\ HasEntry(i)) =>
                /\ CmdOf(i) = ExpectedCmd(LastOfName(i))
                /\ PathOf(i) = LayoutDir(LastOfName(i)) \o "/manifest.yaml"

(***************************************************************************)
(* C20 amended: when two deployments of one document have the same name,   *)
(* commands holds at most one entry for the name, and that entry, output   *)
(* path and argument list, is the one compiled from the last deployment of *)
(* that name that is included (passes the filter and is not disabled): a   *)
(* later included deployment overwrites the entry of an earlier one, a     *)
(* later disabled one leaves it in place; when none is included there is   *)
(* no entry.                                                               *)
(***************************************************************************)
C20_LastIncludedDuplicateWins ==
    Compiled =>
        /\ \A i \in 1..Len(Deps) :
              /\ SurvivesAt(i) =>
                    /\ HasEntry(i)
                    /\ CmdOf(i) = ExpectedCmd(i)
                    /\ PathOf(i) = LayoutDir(i) \o "/manifest.yaml"
              /\ Excluded(i) => ~HasEntry(i)
        /\ Cardinality(DOMAIN Commands)
             = Cardinality({Deps[i].name : i \in {k \in 1..Len(Deps) : IncludedAt(k)}})

C20_Witness ==
    /\ Compiled /\ Len(Deps) = 2
    /\ Deps[1].name = Deps[2].name
    /\ IncludedAt(1) /\ IncludedAt(2)
    /\ Deps[1].release_name = <<>> /\ Deps[2].release_name # <<>>
    /\ Deps[1].values # <<>> /\ Deps[2].values = <<>>
    /\ Cardinality(DOMAIN Commands) = 1
    /\ CmdOf(1) = ExpectedCmd(2) /\ CmdOf(1) # ExpectedCmd(1)
    /\ PathOf(1) = "manifests/" \o Deps[2].name \o "/edge-release/manifest.yaml"

(***************************************************************************)
(* C21: when validation is not skipped (the document is not disabled, or   *)
(* skip_disabled is not set), validate returns an error if every           *)
(* deployment has enabled = false, an empty deployment list included; and  *)
(* when the chart, the value files and the schema version are in order,    *)
(* validate succeeds exactly when some deployment has enabled = true or    *)
(* enabled unset, failing otherwise with "All deployments are disabled".   *)
(***************************************************************************)
ValidationSkipped ==
    cfg.enabled = <<FALSE>> /\ validation_opts.skip_disabled

SomeDeploymentEnabled ==
    \E i \in 1..Len(Deps) : Deps[i].enabled \in {<<>>, <<TRUE>>}

OnDisk(files) ==
    \A k \in 1..Len(files) : files[k].s \in DOMAIN fs

EarlierChecksPass ==
    /\ cfg.chart.s \in DOMAIN fs
    /\ cfg.values = <<>> \/ OnDisk(cfg.values[1])
    /\ \A i \in 1..Len(Deps) :
          \/ Deps[i].enabled = <<FALSE>>
          \/ Deps[i].values = <<>>
          \/ OnDisk(Deps[i].values[1])
    /\ cfg.version = "v1"

C21_AtLeastOneDeploymentEnabled ==
    (pc = "validated" /\ ~ValidationSkipped) =>
        /\ ~SomeDeploymentEnabled => ~validate_ret.ok
        /\ EarlierChecksPass =>
              /\ validate_ret.ok <=> SomeDeploymentEnabled
              /\ ~validate_ret.ok =>
                    validate_ret.msg = "All deployments are disabled"

\* a document without deployments, all else in order, is refused
C21_Witness ==
    /\ pc = "validated" /\ ~ValidationSkipped
    /\ Deps = <<>> /\ EarlierChecksPass
    /\ ~validate_ret.ok
    /\ validate_ret.msg = "All deployments are disabled"

\* the command of deployment cur is about to be invoked
Invoking == pc = "helm" /\ Planned

\* the output directories the inputs give the deployment named n
DirsOf(n) ==
    {JoinedDir(i) : i \in {j \in 1..Len(Deps) : Deps[j].name = n /\ IncludedAt(j)}}

(***************************************************************************)
(* C22: at the moment exec_plan invokes the command of a deployment, the   *)
(* deployment's output directory (the parent of its output file) exists    *)
(* and holds nothing but the newly created, empty output file, whether or  *)
(* not the directory existed with content before the run.                  *)
(***************************************************************************)
C22_OutputDirCleanAtInvocation ==
    Invoking =>
        /\ DirsOf(cur) # {}
        /\ \A dir \in DirsOf(cur) :
              /\ dir \in DOMAIN fs /\ fs[dir].kind = "dir"
              /\ dir \o "/manifest.yaml" \in DOMAIN fs
              /\ fs[dir \o "/manifest.yaml"] = [kind |-> "file", data |-> ""]
              /\ \A q \in DOMAIN fs :
                    IsAbove(dir, q) => q \in {dir, dir \o "/manifest.yaml"}

\* the directory held a manifest and another file of an earlier run
C22_Witness ==
    /\ Invoking /\ cur = "prod"
    /\ "manifests/prod/some-release/notes.txt" \in DOMAIN fs_doc
    /\ fs_doc["manifests/prod/some-release/manifest.yaml"].data = "release: old\n"
    /\ "manifests/prod/some-release/notes.txt" \notin DOMAIN fs
    /\ fs["manifests/prod/some-release/manifest.yaml"].data = ""
    /\ fs["manifests/prod/some-release"].kind = "dir"

\* document d is disabled
DocDisabled(d) == input_files[d].enabled = <<FALSE>>

\* the names of the deployments of document d that are in its plan
PlannedNamesOf(d) ==
    LET ds == input_files[d].deployments
    IN {ds[i].name : i \in {j \in 1..Len(ds) :
            /\ ds[j].enabled # <<FALSE>>
            /\ opts.filter = <<>> \/ FilterMatches(opts.filter[1], ds[j].name)}}

\* every pre-command and every planned command of document d has run with
\* success
FullyExecuted(d) ==
    /\ \A k \in 1..Len(ExpectedPre(d)) :
          /\ Len(EventsOf(d)) >= k
          /\ EventsOf(d)[k].op = "pre" /\ EventsOf(d)[k].ok
    /\ \A n \in PlannedNamesOf(d) :
          \E k \in 1..Len(trace) :
              /\ trace[k].doc = d /\ trace[k].op = "helm"
              /\ trace[k].name = n /\ trace[k].ok

(***************************************************************************)
(* C23 as stated: run processes the documents in the given order, document *)
(* i being validated, compiled and fully executed before document i+1 is   *)
(* begun; a disabled document causes no command and no filesystem call,    *)
(* and the run goes on after it unless it ends with an error; an error in  *)
(* document i (a refused document, a failed command or a failed filesystem *)
(* operation) ends the run with an error, and no later document is begun.  *)
(***************************************************************************)
C23_Original ==
    /\ \A k \in 1..Len(trace) :
          /\ trace[k].doc <= doc /\ trace[k].doc <= Len(input_files)
          /\ k < Len(trace) => trace[k].doc <= trace[k + 1].doc
    /\ \A d \in 1..Len(input_files) :
          /\ d < doc =>
                IF DocDisabled(d) THEN EventsOf(d) = <<>> ELSE FullyExecuted(d)
          /\ DocDisabled(d) =>
                /\ EventsOf(d) = <<>>
                /\ (pc = "done" /\ doc = d) => ~run_ret.ok
    /\ (pc = "load" /\ cfg.enabled = <<FALSE>>) => fs = fs_doc
    /\ \A k \in 1..Len(trace) :
          ~trace[k].ok =>
              /\ pc = "done" /\ ~run_ret.ok
              /\ doc = trace[k].doc
              /\ k = Len(trace)
    /\ Finished => doc = Len(input_files) + 1

\* a step of the loop over plan.commands, for the deployment cur'
DeploymentStep ==
    /\ Planned
    /\ \/ pc = "exec" /\ todo' # todo
       \/ pc = "helm"

\* nothing at q changes in the step
Untouched(q) ==
    /\ (q \in DOMAIN fs) = (q \in DOMAIN fs')
    /\ q \in DOMAIN fs => fs'[q] = fs[q]

\* outside the subtree of dir the step changes nothing but to create
\* missing directories above dir
FrameOf(dir) ==
    \A q \in (DOMAIN fs) \cup (DOMAIN fs') :
        \/ IsAbove(dir, q)
        \/ Untouched(q)
        \/ /\ q \notin DOMAIN fs /\ fs'[q] = [kind |-> "dir", data |-> ""]
           /\ IsAbove(q, dir)

\* the output directories of the planned deployments other than n
OtherDirs(n) ==
    {JoinedDir(i) : i \in {j \in 1..Len(Deps) : SurvivesAt(j) /\ Deps[j].name # n}}

(***************************************************************************)
(* C24 as stated: a step of exec_plan for one deployment changes nothing   *)
(* outside the deployment's own output directory subtree, apart from       *)
(* creating missing directories above it; the output directories of the    *)
(* other deployments, with what they hold, and the other directories under *)
(* outputPath/<deployment name> are unchanged.                             *)
(***************************************************************************)
C24_Original ==
    [][DeploymentStep =>
          /\ DirsOf(cur') # {}
          /\ \A dir \in DirsOf(cur') :
                /\ FrameOf(dir)
                /\ \A other \in OtherDirs(cur') :
                      \A q \in (DOMAIN fs) \cup (DOMAIN fs') :
                          IsAbove(other, q) => Untouched(q)
                /\ \A q \in DOMAIN fs :
                      (IsAbove(cfg.output_path.s \o "/" \o cur', q)
                          /\ ~IsAbove(dir, q) /\ ~IsAbove(q, dir)) => Untouched(q)
      ]_vars

(***************************************************************************)
(* C24 amended: a step of exec_plan for one deployment changes nothing     *)
(* outside the deployment's own output directory subtree, apart from       *)
(* creating missing directories above it; the output directories of the    *)
(* other deployments that neither lie within that subtree nor contain it,  *)
(* with what they hold, and the other directories under                    *)
(* outputPath/<deployment name> are unchanged.                             *)
(***************************************************************************)
C24_FrameOfDeploymentStep ==
    [][DeploymentStep =>
          /\ DirsOf(cur') # {}
          /\ \A dir \in DirsOf(cur') :
                /\ FrameOf(dir)
                /\ \A other \in OtherDirs(cur') :
                      (~IsAbove(dir, other) /\ ~IsAbove(other, dir)) =>
                          \A q \in (DOMAIN fs) \cup (DOMAIN fs') :
                              IsAbove(other, q) => Untouched(q)
                /\ \A q \in DOMAIN fs :
                      (IsAbove(cfg.output_path.s \o "/" \o cur', q)
                          /\ ~IsAbove(dir, q) /\ ~IsAbove(q, dir)) => Untouched(q)
      ]_vars

\* the command of prod has run: its directory is cleaned and written, the
\* directory of its old release and the stale output of edge are as before
C24_Witness ==
    /\ Planned /\ pc = "exec" /\ cur = "prod" /\ "edge" \in todo
    /\ trace[Len(trace)].op = "helm" /\ trace[Len(trace)].name = "prod"
    /\ "manifests/prod/some-release/notes.txt" \in DOMAIN fs_doc
    /\ "manifests/prod/some-release/notes.txt" \notin DOMAIN fs
    /\ fs["manifests/prod/some-release/manifest.yaml"].data # "release: old\n"
    /\ fs["manifests/prod/old-release/manifest.yaml"].data = "release: old\n"
    /\ fs["manifests/edge/eu/stale.txt"].data = "stale"
    /\ fs["manifests/edge/eu/manifest.yaml"].data = "release: old\n"

\* the document being processed has a pre-command, and it fails
PreCommandFails ==
    /\ doc <= Len(input_files)
    /\ fault.kind = "pre" /\ fault.at = doc
    /\ ExpectedPre(doc) # <<>>

(***************************************************************************)
(* C25: if a pre-command fails, exec_plan returns the error with the       *)
(* filesystem as it was when the document was begun: the failed            *)
(* pre-command is the only call made for the document, so no later         *)
(* pre-command and no deployment command is invoked, no output directory   *)
(* is removed or created and no output file is created or truncated.       *)
(***************************************************************************)
C25_PreCommandFailureLeavesOutputs ==
    PreCommandFails =>
        /\ \A q \in (DOMAIN fs) \cup (DOMAIN fs_doc) :
              /\ q \in DOMAIN fs /\ q \in DOMAIN fs_doc
              /\ fs[q] = fs_doc[q]
        /\ Len(EventsOf(doc)) <= 1
        /\ \A k \in 1..Len(trace) :
              trace[k].doc = doc =>
                  /\ trace[k].op = "pre" /\ ~trace[k].ok
                  /\ pc = "done" /\ ~run_ret.ok
                  /\ run_ret.msg = "failed while running helm"
                  /\ run_ret.value = ExpectedPre(doc)[1].line
        /\ (pc \in {"helm", "done"} /\ Planned) => EventsOf(doc) # <<>>

\* the outputs of an earlier run are there after the failed run
C25_Witness ==
    /\ PreCommandFails /\ pc = "done" /\ ~run_ret.ok
    /\ Planned /\ DOMAIN Commands # {}
    /\ trace[Len(trace)].op = "pre" /\ ~trace[Len(trace)].ok
    /\ \A n \in DOMAIN Commands :
          /\ Commands[n].path.s \in DOMAIN fs
          /\ fs[Commands[n].path.s].data = "release: old\n"
    /\ fs["manifests/prod/some-release/notes.txt"].data = "stale"

\* the output directories of the plan of the current document
PlannedDirs == {JoinedDir(i) : i \in {j \in 1..Len(Deps) : SurvivesAt(j)}}

\* no planned output directory is another one or lies above it
NoNesting ==
    \A i, j \in 1..Len(Deps) :
        (SurvivesAt(i) /\ SurvivesAt(j) /\ i # j) =>
            ~IsAbove(JoinedDir(i), JoinedDir(j))

\* what the command of deployment i prints
OutputOf(i) == "release: " \o EffectiveReleaseName(i) \o "\n"

\* q is a directory above dir
ProperlyAbove(q, dir) == q # dir /\ IsAbove(q, dir)

(***************************************************************************)
(* C26 as stated: when no planned output directory equals or lies above    *)
(* another one and every command succeeds, the filesystem after exec_plan  *)
(* is the same whatever the order in which the commands map was iterated:  *)
(* every planned output file exists, alone in its directory, and holds     *)
(* exactly the captured output of its own command; the directories above   *)
(* the output directories exist; everything else is as it was before.      *)
(***************************************************************************)
C26_Original ==
    (Planned /\ Finished /\ NoNesting) =>
        /\ \A i \in 1..Len(Deps) :
              SurvivesAt(i) =>
                  /\ JoinedDir(i) \in DOMAIN fs
                  /\ fs[JoinedDir(i)] = [kind |-> "dir", data |-> ""]
                  /\ JoinedDir(i) \o "/manifest.yaml" \in DOMAIN fs
                  /\ fs[JoinedDir(i) \o "/manifest.yaml"] =
                        [kind |-> "file", data |-> OutputOf(i)]
                  /\ \A k \in 1..(Len(JoinedDir(i)) - 1) :
                        SubSeq(JoinedDir(i), k + 1, k + 1) = "/" =>
                            SubSeq(JoinedDir(i), 1, k) \in DOMAIN fs
        /\ \A q \in DOMAIN fs :
              \/ \E dir \in PlannedDirs : q \in {dir, dir \o "/manifest.yaml"}
              \/ /\ \A dir \in PlannedDirs : ~IsAbove(dir, q)
                 /\ \/ q \in DOMAIN fs_doc /\ fs[q] = fs_doc[q]
                    \/ /\ q \notin DOMAIN fs_doc
                       /\ fs[q] = [kind |-> "dir", data |-> ""]
                       /\ \E dir \in PlannedDirs : ProperlyAbove(q, dir)
        /\ \A q \in DOMAIN fs_doc :
              (\A dir \in PlannedDirs : ~IsAbove(dir, q)) => q \in DOMAIN fs

\* exec_plan has returned the error of run_helm for the deployment cur
DeploymentCallFailed ==
    /\ Planned /\ pc = "done" /\ ~run_ret.ok
    /\ trace # <<>>
    /\ trace[Len(trace)].op = "helm" /\ ~trace[Len(trace)].ok
    /\ trace[Len(trace)].name = cur /\ trace[Len(trace)].doc = doc

\* the command itself failed, by its exit status or its output
HelmFailed == run_ret.msg = "failed while running helm"

\* the output directories of the deployments reached so far in this
\* execution
ReachedDirs ==
    UNION {DirsOf(n) : n \in {Deps[i].name : i \in {j \in 1..Len(Deps) :
                                  IncludedAt(j) /\ Deps[j].name \notin todo}}}

\* the subtree of dir is as it was when the document was begun
AsBefore(dir) ==
    \A q \in (DOMAIN fs) \cup (DOMAIN fs_doc) :
        IsAbove(dir, q) =>
            /\ q \in DOMAIN fs /\ q \in DOMAIN fs_doc
            /\ fs[q] = fs_doc[q]

\* the output directory of the failed deployment holds its output file alone
CleanedDir(dir) ==
    /\ dir \in DOMAIN fs /\ fs[dir].kind = "dir"
    /\ dir \o "/manifest.yaml" \in DOMAIN fs
    /\ fs[dir \o "/manifest.yaml"].kind = "file"
    /\ \A q \in DOMAIN fs :
          IsAbove(dir, q) => q \in {dir, dir \o "/manifest.yaml"}

IsPrefix(s, t) == Len(s) <= Len(t) /\ s = SubSeq(t, 1, Len(s))

(***************************************************************************)
(* C27 as stated: when the command of a deployment fails in exec_plan, the *)
(* deployment's output directory has been cleaned and its output file      *)
(* exists and is empty, and the output directories of the deployments not  *)
(* yet reached are exactly as they were before.                            *)
(***************************************************************************)
C27_Original ==
    (DeploymentCallFailed /\ HelmFailed) =>
        /\ DirsOf(cur) # {}
        /\ \A dir \in DirsOf(cur) :
              /\ CleanedDir(dir)
              /\ fs[dir \o "/manifest.yaml"].data = ""
        /\ \A n \in todo : \A dir \in DirsOf(n) : AsBefore(dir)

(***************************************************************************)
(* C27 amended: when run_helm for a deployment returns an error in         *)
(* exec_plan, the deployment's output directory has been cleaned and holds *)
(* the output file alone; the file is empty when the command itself failed *)
(* (it could not be run, its exit status is not success or its output      *)
(* contains "exit status 1") and holds a proper prefix of the output when  *)
(* writing the output failed.  The output directory of a deployment not    *)
(* yet reached is exactly as it was before, unless it lies within or       *)
(* above the output directory of a deployment already reached.             *)
(***************************************************************************)
C27_FailedDeploymentLeavesCleanDir ==
    DeploymentCallFailed =>
        /\ DirsOf(cur) # {}
        /\ \A dir \in DirsOf(cur) :
              /\ CleanedDir(dir)
              /\ HelmFailed => fs[dir \o "/manifest.yaml"].data = ""
              /\ ~HelmFailed =>
                    /\ run_ret.msg = "can not write to output"
                    /\ \E i \in 1..Len(Deps) :
                          /\ Deps[i].name = cur /\ SurvivesAt(i)
                          /\ IsPrefix(fs[dir \o "/manifest.yaml"].data, OutputOf(i))
                          /\ fs[dir \o "/manifest.yaml"].data # OutputOf(i)
        /\ \A n \in todo : \A dir \in DirsOf(n) :
              (\A r \in ReachedDirs : ~IsAbove(r, dir) /\ ~IsAbove(dir, r)) =>
                  AsBefore(dir)

\* the command of prod failed after an earlier run: its directory holds the
\* empty manifest alone, the stale output of edge is untouched
C27_Witness ==
    /\ DeploymentCallFailed /\ HelmFailed /\ cur = "prod" /\ "edge" \in todo
    /\ fs_doc["manifests/prod/some-release/manifest.yaml"].data = "release: old\n"
    /\ "manifests/prod/some-release/notes.txt" \in DOMAIN fs_doc
    /\ "manifests/prod/some-release/notes.txt" \notin DOMAIN fs
    /\ fs["manifests/prod/some-release/manifest.yaml"].data = ""
    /\ fs["manifests/edge/eu/stale.txt"].data = "stale"
    /\ fs["manifests/edge/eu/manifest.yaml"].data = "release: old\n"

====
